---- MODULE Spec2Model ----
(***************************************************************************)
(* Model of the AI-storyteller scripts:                                    *)
(*   - align_transcription_with_speakers  (scripts/transcribeWithSpeakers) *)
(*   - parse_mixed_json_and_text          (scripts/format_output)          *)
(*   - the newline encoding of extract_json_from_response                  *)
(*     (scripts/gemini3ProAudio) and format_text_with_line_breaks          *)
(*   - main of scripts/analyzeWithGemini                                   *)
(*   - main of scripts/transcribeWithSpeakers                              *)
(* Strings are sequences of one-character strings.  A Python value that    *)
(* may be None is a sequence of length 0 (None) or 1 (the value).          *)
(***************************************************************************)
EXTENDS Integers, Sequences, FiniteSets, TLC

VARIABLES
    transcription_segments,   \* argument of align_transcription_with_speakers
    speaker_segments,         \* argument of align_transcription_with_speakers
    aligned_segments,         \* the list the function builds and returns
    apc,                      \* position in align: "loop", "returned", "raised"
    raw,                      \* argument of parse_mixed_json_and_text, as passed
    text,                     \* the local text (rebound to text.strip())
    result_parts,             \* the parts strategy 2 has appended
    markdown_matches,         \* list(re.finditer(...))
    mi,                       \* index of the match the strategy-2 loop is at
    last_end,                 \* last_end of the strategy-2 loop
    json_objects,             \* (start, end, parsed_obj) of strategy 3
    brace_count,              \* depth counter of strategy 3
    start_idx,                \* start of the open brace span, -1 when none
    scan_i,                   \* the index i of "for i, char in enumerate(text)"
    epc,                      \* position in parse_mixed_json_and_text
    chunks,                   \* the parts that are joined into the result
    result,                   \* the returned string
    ret,                      \* the return statement taken
    ran,                      \* the strategies entered, in order
    combined_text,            \* extract_json_from_response: the joined text parts
    json_str,                 \* extract_json_from_response: the text handed to json.loads
    formatted_text,           \* extract_json_from_response: the "text" it returns
    formatted,                \* format_text_with_line_breaks: after text.replace
    rpc,                      \* position in the two functions, one after the other
    args,                     \* analyzeWithGemini: the parsed command line
    input_data,               \* analyzeWithGemini: the JSON object read from stdin
    fs,                       \* the prompt files: their stripped content, or Missing
    text_input,               \* analyzeWithGemini main: local text_input
    audio_input,              \* analyzeWithGemini main: local audio_input
    prompt,                   \* analyzeWithGemini main: local prompt
    prompt_file,              \* analyzeWithGemini main: local prompt_file
    output_file,              \* analyzeWithGemini main: local output_file
    detected_lang,            \* analyzeWithGemini main: local detected_lang
    calls,                    \* the services and files main has called on, in order
    sent,                     \* what call_gemini_api was given (length 0: not called)
    files_read,               \* the prompt files read_prompt_from_file was asked for
    out,                      \* the result written (length 0: none)
    err,                      \* the error codes printed on stderr, in order
    exit_status,              \* the exit status (-1 while running)
    mpc,                      \* position in analyzeWithGemini main
    audio_url,                \* transcribeWithSpeakers main: local audio_url
    audio_bytes,              \* the length of the audio that audio_url names
    files,                    \* the audio files that exist on disk
    ts_output_file,           \* transcribeWithSpeakers main: local output_file
    temp_file_path,           \* transcribeWithSpeakers main: local temp_file_path
    size_bytes,               \* len(audio_data), -1 before the audio is loaded
    ts_calls,                 \* the steps transcribeWithSpeakers main has begun
    ts_out,                   \* where the result was written (length 0: nowhere)
    ts_stderr,                \* the error codes printed on stderr, in order
    ts_exit,                  \* the exit status (-1 while none is set)
    unlinked,                 \* the paths os.unlink has removed
    unlink_errors,            \* the paths on which os.unlink raised
    tpc                       \* position in transcribeWithSpeakers main

alignVars == <<transcription_segments, speaker_segments, aligned_segments, apc>>

extractVars ==
    <<raw, text, result_parts, markdown_matches, mi, last_end, json_objects,
      brace_count, start_idx, scan_i, epc, chunks, result, ret, ran>>

newlineVars == <<combined_text, json_str, formatted_text, formatted, rpc>>

analyzeVars ==
    <<args, input_data, fs, text_input, audio_input, prompt, prompt_file,
      output_file, detected_lang, calls, sent, files_read, out, err, exit_status,
      mpc>>

transcribeVars ==
    <<audio_url, audio_bytes, files, ts_output_file, temp_file_path, size_bytes,
      ts_calls, ts_out, ts_stderr, ts_exit, unlinked, unlink_errors, tpc>>

\* The variables of the two main functions.
pipeVars == <<analyzeVars, transcribeVars>>

restVars == <<newlineVars, pipeVars>>

vars == <<alignVars, extractVars, restVars>>

(***************************************************************************)
(* Bounds of the aligner's inputs.                                         *)
(***************************************************************************)
MaxT == 2        \* longest transcript-segment list
MaxS == 2        \* longest speaker-segment list

\* Intervals <<start, end>> of the transcript segments: wide, shifted,
\* zero-duration and malformed (start > end).
TransIntervals == {<<0, 2>>, <<1, 3>>, <<1, 1>>, <<2, 0>>}

\* Intervals of the speaker segments: halves and whole of [0,2], one that only
\* touches it at 2, a zero-duration one and a malformed one.
SpkIntervals == {<<0, 1>>, <<1, 2>>, <<0, 2>>, <<2, 3>>, <<1, 1>>, <<3, 0>>}

\* Speaker labels are opaque strings; the empty string is one of them.
Labels == {"SPEAKER_00", "SPEAKER_01", ""}

TransTexts == {"hello"}

\* A transcript segment as the transcription service returns it.
TransSeg(iv, tx) == [id |-> 0, start |-> iv[1], end |-> iv[2], text |-> tx]

\* A speaker segment as perform_speaker_diarization builds it.
DiarizedSeg(iv, lb) ==
    [speaker |-> lb, start |-> iv[1], end |-> iv[2], duration |-> iv[2] - iv[1]]

\* Dictionaries that lack a key the aligner reads.
TransSegNoEnd == [id |-> 0, start |-> 0, text |-> "hello"]
SpkSegNoStart == [speaker |-> "SPEAKER_00", end |-> 2, duration |-> 2]

TransSegs ==
    {TransSeg(iv, tx) : iv \in TransIntervals, tx \in TransTexts} \cup {TransSegNoEnd}

SpkSegs ==
    {DiarizedSeg(iv, lb) : iv \in SpkIntervals, lb \in Labels} \cup {SpkSegNoStart}

SeqsUpTo(S, n) == UNION {[1..k -> S] : k \in 0..n}

\* The transcription service numbers its segments 0, 1, 2, ...
Numbered(segs) == [i \in 1..Len(segs) |-> [segs[i] EXCEPT !.id = i - 1]]

(***************************************************************************)
(* align_transcription_with_speakers                                       *)
(***************************************************************************)
Max(a, b) == IF a >= b THEN a ELSE b
Min(a, b) == IF a <= b THEN a ELSE b

\* d[k] succeeds for each k of keys (otherwise Python raises KeyError).
HasKeysStrict(d, keys) ==
    /\ keys \subseteq DOMAIN d
    /\ ("start" \in keys /\ "end" \in keys) => d.start <= d.end
HasKeys(d, keys) == keys \subseteq DOMAIN d

\* overlap of [trans_start, trans_end] with [speaker_start, speaker_end]
Overlap(trans_start, trans_end, speaker_start, speaker_end) ==
    LET overlap_start == Max(trans_start, speaker_start)
        overlap_end == Min(trans_end, speaker_end)
    IN  Max(0, overlap_end - overlap_start)

\* The test that replaces the running best.
BetterOrEqual(overlap, best_overlap) == overlap >= best_overlap
Better(overlap, best_overlap) == overlap > best_overlap

\* Python truthiness of best_speaker (None or a str).
Truthy(best_speaker) == best_speaker # <<>> /\ best_speaker[1] # ""

\* best_speaker if best_speaker else "UNKNOWN"
SpeakerOrUnknown(best_speaker) ==
    IF Truthy(best_speaker) THEN best_speaker[1] ELSE "UNKNOWN"

\* The inner loop over speaker_segments, from the state acc =
\* [best_speaker, best_overlap, raised].
RECURSIVE ScanSpeakers(_, _, _, _)
ScanSpeakers(trans_start, trans_end, segs, acc) ==
    IF segs = <<>> \/ acc.raised THEN acc
    ELSE LET speaker_seg == Head(segs) IN
         IF ~HasKeys(speaker_seg, {"start", "end"})
         THEN [acc EXCEPT !.raised = TRUE]
         ELSE LET overlap == Overlap(trans_start, trans_end,
                                     speaker_seg.start, speaker_seg.end)
              IN  IF Better(overlap, acc.best_overlap)
                  THEN IF ~HasKeys(speaker_seg, {"speaker"})
                       THEN [acc EXCEPT !.raised = TRUE]
                       ELSE ScanSpeakers(trans_start, trans_end, Tail(segs),
                                [best_speaker |-> <<speaker_seg.speaker>>,
                                 best_overlap |-> overlap,
                                 raised |-> FALSE])
                  ELSE ScanSpeakers(trans_start, trans_end, Tail(segs), acc)

BestFor(trans_seg, segs) ==
    ScanSpeakers(trans_seg.start, trans_seg.end, segs,
                 [best_speaker |-> <<>>, best_overlap |-> 0, raised |-> FALSE])

\* {**trans_seg, "speaker": label}
WithSpeaker(trans_seg, label) ==
    [k \in DOMAIN trans_seg \cup {"speaker"} |->
        IF k = "speaker" THEN label ELSE trans_seg[k]]

\* The dict display builds a new dictionary: trans_seg, and with it the list
\* it is an element of, is what it was (an assignment trans_seg["speaker"] =
\* ... would have changed the element in place).
AfterInPlaceUpdate(segs, idx, aligned_seg) == [segs EXCEPT ![idx] = aligned_seg]
AfterDictDisplay(segs, idx, aligned_seg) == segs

\* aligned_segments.append(aligned_seg)
AppendFront(list, aligned_seg) == <<aligned_seg>> \o list
AppendSeg(list, aligned_seg) == Append(list, aligned_seg)

\* The transcript segment the outer loop is at.
CurIndex == Len(aligned_segments) + 1

\* parse_mixed_json_and_text is not running.
ExtractIdle ==
    /\ raw = <<>> /\ text = <<>> /\ result_parts = <<>> /\ markdown_matches = <<>>
    /\ mi = 1 /\ last_end = 0 /\ json_objects = <<>> /\ brace_count = 0
    /\ start_idx = -1 /\ scan_i = 0 /\ epc = "idle" /\ chunks = <<>>
    /\ result = <<>> /\ ret = "" /\ ran = <<>>

\* extract_json_from_response is not running.
NewlineIdle ==
    /\ combined_text = <<>> /\ json_str = <<>> /\ formatted_text = <<>>
    /\ formatted = <<>> /\ rpc = "idle"

\* analyzeWithGemini main is not running.
AnalyzeIdle ==
    /\ args = <<>> /\ input_data = <<>> /\ fs = <<>>
    /\ text_input = "" /\ audio_input = "" /\ prompt = "" /\ prompt_file = ""
    /\ output_file = "" /\ detected_lang = "" /\ calls = <<>> /\ sent = <<>>
    /\ files_read = {} /\ out = <<>> /\ err = <<>> /\ exit_status = -1
    /\ mpc = "idle"

\* transcribeWithSpeakers main is not running.
TranscribeIdle ==
    /\ audio_url = "" /\ audio_bytes = 0 /\ files = {} /\ ts_output_file = ""
    /\ temp_file_path = "" /\ size_bytes = -1 /\ ts_calls = <<>> /\ ts_out = <<>>
    /\ ts_stderr = <<>> /\ ts_exit = -1 /\ unlinked = {} /\ unlink_errors = {}
    /\ tpc = "idle"

\* No main function is running.
PipeIdle == AnalyzeIdle /\ TranscribeIdle

\* None of the other functions is running.
RestIdle == NewlineIdle /\ PipeIdle

\* align_transcription_with_speakers is not running.
AlignIdle ==
    /\ transcription_segments = <<>> /\ speaker_segments = <<>>
    /\ aligned_segments = <<>> /\ apc = "idle"

InitAlign ==
    /\ transcription_segments \in {Numbered(s) : s \in SeqsUpTo(TransSegs, MaxT)}
    /\ speaker_segments \in SeqsUpTo(SpkSegs, MaxS)
    /\ aligned_segments = <<>>
    /\ apc = "loop"
    /\ ExtractIdle /\ RestIdle

\* One iteration of "for trans_seg in transcription_segments" that completes.
AlignSegment ==
    /\ apc = "loop"
    /\ CurIndex <= Len(transcription_segments)
    /\ LET trans_seg == transcription_segments[CurIndex] IN
       /\ HasKeys(trans_seg, {"start", "end"})
       /\ LET r == BestFor(trans_seg, speaker_segments) IN
          /\ ~r.raised
          /\ LET aligned_seg == WithSpeaker(trans_seg, SpeakerOrUnknown(r.best_speaker))
             IN  /\ aligned_segments' = AppendSeg(aligned_segments, aligned_seg)
                 /\ transcription_segments' =
                       AfterDictDisplay(transcription_segments, CurIndex, aligned_seg)
    /\ UNCHANGED <<speaker_segments, apc, extractVars, restVars>>

\* An iteration in which a dictionary lookup raises KeyError.
AlignRaise ==
    /\ apc = "loop"
    /\ CurIndex <= Len(transcription_segments)
    /\ LET trans_seg == transcription_segments[CurIndex] IN
       \/ ~HasKeys(trans_seg, {"start", "end"})
       \/ /\ HasKeys(trans_seg, {"start", "end"})
          /\ BestFor(trans_seg, speaker_segments).raised
    /\ apc' = "raised"
    /\ UNCHANGED <<transcription_segments, speaker_segments, aligned_segments, extractVars, restVars>>

\* return aligned_segments
AlignReturn ==
    /\ apc = "loop"
    /\ CurIndex > Len(transcription_segments)
    /\ apc' = "returned"
    /\ UNCHANGED <<transcription_segments, speaker_segments, aligned_segments, extractVars, restVars>>

NextAlign == AlignSegment \/ AlignRaise \/ AlignReturn

SpecAlign == InitAlign /\ [][NextAlign]_vars

(***************************************************************************)
(* Strings of format_output.py: sequences of one-character strings, indexed *)
(* from 0 as in Python.                                                     *)
(***************************************************************************)
\* text[a:b]
Slice(s, a, b) == SubSeq(s, a + 1, b)

\* text[i]
Ch(s, i) == s[i + 1]

\* The whitespace of the inputs: str.strip(), the regex \s and the JSON
\* scanner agree on these two characters.
IsSpace(c) == c \in {" ", "\n"}

\* The first index >= i that holds no whitespace (len(s) when there is none).
RECURSIVE SkipWs(_, _)
SkipWs(s, i) ==
    IF i < Len(s) /\ IsSpace(Ch(s, i)) THEN SkipWs(s, i + 1) ELSE i

\* The last index + 1 of s[0:j] once its trailing whitespace is dropped.
RECURSIVE SkipWsBack(_, _)
SkipWsBack(s, j) ==
    IF j > 0 /\ IsSpace(Ch(s, j - 1)) THEN SkipWsBack(s, j - 1) ELSE j

\* str.strip()
LStrip(s) == Slice(s, SkipWs(s, 0), Len(s))
Strip(s) ==
    LET a == SkipWs(s, 0) IN
    IF a = Len(s) THEN <<>> ELSE Slice(s, a, SkipWsBack(s, Len(s)))

\* s[i:i+len(lit)] == lit
StartsWith(s, i, lit) ==
    /\ i + Len(lit) <= Len(s)
    /\ \A k \in 1..Len(lit) : s[i + k] = lit[k]

(***************************************************************************)
(* json.loads and json.dumps(indent=2, ensure_ascii=False) on the           *)
(* characters of the inputs.  A parsed value is                             *)
(*   [t |-> "num", s |-> digits]          an int                            *)
(*   [t |-> "str", s |-> characters]      a str                             *)
(*   [t |-> "arr", kids |-> <<v>> or <<>>] a list                           *)
(*   [t |-> "obj", s |-> key, kids |-> <<v>> or <<>>] a dict                *)
(* The inputs hold no comma, so a list or dict has at most one member.      *)
(***************************************************************************)
NoVal == [t |-> "none", s |-> <<>>, kids |-> <<>>]
JsonFail == [ok |-> FALSE, end |-> 0, val |-> NoVal]
JsonOk(v, e) == [ok |-> TRUE, end |-> e, val |-> v]

\* The end of the run of digits that begins at idx.
RECURSIVE DigitsEnd(_, _)
DigitsEnd(s, i) ==
    IF i < Len(s) /\ Ch(s, i) = "1" THEN DigitsEnd(s, i + 1) ELSE i

\* The index of the first quote or control character at or after i
\* (len(s) when there is none).
RECURSIVE StringStop(_, _)
StringStop(s, i) ==
    IF i < Len(s) /\ Ch(s, i) \notin {"\"", "\n"} THEN StringStop(s, i + 1) ELSE i

\* scanstring(s, begin): begin is the index after the opening quote.
ScanString(s, begin) ==
    LET q == StringStop(s, begin) IN
    IF q < Len(s) /\ Ch(s, q) = "\""
    THEN JsonOk([t |-> "str", s |-> Slice(s, begin, q), kids |-> <<>>], q + 1)
    ELSE JsonFail

RECURSIVE ScanOnce(_, _)
RECURSIVE JSONObject(_, _)
RECURSIVE JSONArray(_, _)

\* JSONObject(s_and_end): after is the index after "{".
JSONObject(s, after) ==
    LET e1 == SkipWs(s, after) IN
    IF e1 < Len(s) /\ Ch(s, e1) = "}"
    THEN JsonOk([t |-> "obj", s |-> <<>>, kids |-> <<>>], e1 + 1)
    ELSE IF ~(e1 < Len(s) /\ Ch(s, e1) = "\"") THEN JsonFail
    ELSE LET key == ScanString(s, e1 + 1) IN
         IF ~key.ok THEN JsonFail
         ELSE LET e2 == SkipWs(s, key.end) IN
              IF ~(e2 < Len(s) /\ Ch(s, e2) = ":") THEN JsonFail
              ELSE LET value == ScanOnce(s, SkipWs(s, e2 + 1)) IN
                   IF ~value.ok THEN JsonFail
                   ELSE LET e3 == SkipWs(s, value.end) IN
                        IF e3 < Len(s) /\ Ch(s, e3) = "}"
                        THEN JsonOk([t |-> "obj", s |-> key.val.s,
                                     kids |-> <<value.val>>], e3 + 1)
                        ELSE JsonFail

\* JSONArray(s_and_end): after is the index after "[".
JSONArray(s, after) ==
    LET e1 == SkipWs(s, after) IN
    IF e1 < Len(s) /\ Ch(s, e1) = "]"
    THEN JsonOk([t |-> "arr", s |-> <<>>, kids |-> <<>>], e1 + 1)
    ELSE LET value == ScanOnce(s, e1) IN
         IF ~value.ok THEN JsonFail
         ELSE LET e2 == SkipWs(s, value.end) IN
              IF e2 < Len(s) /\ Ch(s, e2) = "]"
              THEN JsonOk([t |-> "arr", s |-> <<>>, kids |-> <<value.val>>], e2 + 1)
              ELSE JsonFail

\* scan_once(string, idx)
ScanOnce(s, idx) ==
    IF idx >= Len(s) THEN JsonFail
    ELSE LET nextchar == Ch(s, idx) IN
         CASE nextchar = "\"" -> ScanString(s, idx + 1)
           [] nextchar = "{" -> JSONObject(s, idx + 1)
           [] nextchar = "[" -> JSONArray(s, idx + 1)
           [] nextchar = "1" ->
                LET e == DigitsEnd(s, idx) IN
                JsonOk([t |-> "num", s |-> Slice(s, idx, e), kids |-> <<>>], e)
           [] OTHER -> JsonFail

\* json.loads(s): JSONDecoder.decode; ok is FALSE where it raises
\* JSONDecodeError.
Loads(s) ==
    LET r == ScanOnce(s, SkipWs(s, 0)) IN
    IF r.ok /\ SkipWs(s, r.end) = Len(s) THEN r ELSE JsonFail

\* The indentation of nesting level n: 2 * n spaces.
Indent(n) == [k \in 1..(2 * n) |-> " "]

\* json.dumps(v, indent=2, ensure_ascii=False), at nesting level lvl.
RECURSIVE DumpsAt(_, _)
DumpsAt(v, lvl) ==
    CASE v.t = "num" -> v.s
      [] v.t = "str" -> <<"\"">> \o v.s \o <<"\"">>
      [] v.t = "arr" ->
            IF v.kids = <<>> THEN <<"[", "]">>
            ELSE <<"[", "\n">> \o Indent(lvl + 1) \o DumpsAt(v.kids[1], lvl + 1)
                 \o <<"\n">> \o Indent(lvl) \o <<"]">>
      [] v.t = "obj" ->
            IF v.kids = <<>> THEN <<"{", "}">>
            ELSE <<"{", "\n">> \o Indent(lvl + 1) \o <<"\"">> \o v.s \o <<"\"", ":", " ">>
                 \o DumpsAt(v.kids[1], lvl + 1)
                 \o <<"\n">> \o Indent(lvl) \o <<"}">>

Dumps(v) == DumpsAt(v, 0)

(***************************************************************************)
(* markdown_pattern with re.DOTALL, and re.finditer over it: a fence, an    *)
(* optional json tag, whitespace, group 1 (a lazy brace or bracket span),  *)
(* whitespace, a fence.  A match is [start, end, g1lo, g1hi]: group(0) is  *)
(* text[start:end] and group(1) is text[g1lo:g1hi].                        *)
(***************************************************************************)
\* The backtick character (the module language has no string literal for it).
Tick == "tick"
Fence == <<Tick, Tick, Tick>>
JsonTag == <<"j", "s", "o", "n">>

\* The index where group 1 must begin in a match that begins at p: after the
\* fence, the tag if it is there, and all the whitespace.
GroupStart(s, p) ==
    SkipWs(s, IF StartsWith(s, p + 3, JsonTag) THEN p + 7 ELSE p + 3)

\* The closing character of the alternative that begins with c.
Closer(c) == IF c = "{" THEN "}" ELSE "]"

\* The indices of a closing character after b that whitespace and a fence
\* follow: where the lazy .*? may stop.
GroupStops(s, b) ==
    {q \in (b + 1)..(Len(s) - 1) :
        /\ Ch(s, q) = Closer(Ch(s, b))
        /\ StartsWith(s, SkipWs(s, q + 1), Fence)}

\* The pattern matches at p.
MatchesAt(s, p) ==
    /\ StartsWith(s, p, Fence)
    /\ LET b == GroupStart(s, p) IN
       /\ b < Len(s)
       /\ Ch(s, b) \in {"{", "["}
       /\ GroupStops(s, b) # {}

SetMin(S) == CHOOSE x \in S : \A y \in S : x <= y

\* The match at p: the lazy group stops at the first place that lets the rest
\* of the pattern match.
MatchAt(s, p) ==
    LET b == GroupStart(s, p)
        q == SetMin(GroupStops(s, b))
    IN  [start |-> p, end |-> SkipWs(s, q + 1) + 3, g1lo |-> b, g1hi |-> q + 1]

\* list(re.finditer(markdown_pattern, text, re.DOTALL)), searching from pos.
RECURSIVE FindAll(_, _)
FindAll(s, pos) ==
    LET P == {p \in pos..(Len(s) - 1) : MatchesAt(s, p)} IN
    IF P = {} THEN <<>>
    ELSE LET m == MatchAt(s, SetMin(P)) IN <<m>> \o FindAll(s, m.end)

(***************************************************************************)
(* parse_mixed_json_and_text                                               *)
(***************************************************************************)
\* An element of result_parts: the string, whether json.dumps or a slice of
\* the text made it, and the span text[lo:hi] it was made from.
JsonChunk(v, lo, hi) == [kind |-> "Json", s |-> Dumps(v), lo |-> lo, hi |-> hi]
TextChunk(str, lo, hi) == [kind |-> "Text", s |-> str, lo |-> lo, hi |-> hi]

\* "\n\n".join(parts)
RECURSIVE Join(_)
Join(parts) ==
    IF parts = <<>> THEN <<>>
    ELSE IF Len(parts) = 1 THEN parts[1].s
    ELSE parts[1].s \o <<"\n", "\n">> \o Join(Tail(parts))

\* filter(None, result_parts): the parts that are not the empty string.
RECURSIVE FilterNone(_)
FilterNone(parts) ==
    IF parts = <<>> THEN <<>>
    ELSE IF Head(parts).s = <<>> THEN FilterNone(Tail(parts))
    ELSE <<Head(parts)>> \o FilterNone(Tail(parts))

\* try: json.loads(text) succeeds
WholeParsesContainer(txt) == Loads(txt).ok /\ Loads(txt).val.t \in {"arr", "obj"}
WholeParses(txt) == Loads(txt).ok

\* text[a:b].strip()
GapTextRaw(txt, a, b) == Slice(txt, a, b)
GapText(txt, a, b) == Strip(Slice(txt, a, b))

\* The part strategy 2 appends for the plain text text[a:b].
GapChunkParsed(txt, a, b) ==
    IF Loads(GapText(txt, a, b)).ok
    THEN JsonChunk(Loads(GapText(txt, a, b)).val, a, b)
    ELSE TextChunk(GapText(txt, a, b), a, b)
GapChunk(txt, a, b) == TextChunk(GapText(txt, a, b), a, b)

\* match.group(0), kept as text when the fenced content does not parse.
FailedBlockInner(txt, m) == Slice(txt, m.g1lo, m.g1hi)
FailedBlock(txt, m) == Slice(txt, m.start, m.end)

\* The part strategy 2 appends for the match m.
BlockChunk(txt, m) ==
    LET parsed == Loads(Slice(txt, m.g1lo, m.g1hi)) IN
    IF parsed.ok THEN JsonChunk(parsed.val, m.start, m.end)
    ELSE TextChunk(FailedBlock(txt, m), m.start, m.end)

\* before_text = text[last_end:start].strip(), appended when start > last_end
\* and it is not empty.
BeforeChunkNone(txt, last, start) == <<>>
BeforeChunk(txt, last, start) ==
    IF start > last /\ Strip(Slice(txt, last, start)) # <<>>
    THEN <<TextChunk(Strip(Slice(txt, last, start)), last, start)>>
    ELSE <<>>

\* remaining_text = text[last_end:].strip(), appended when last_end < len(text)
\* and it is not empty.
RestChunkNone(txt, last) == <<>>
RestChunk(txt, last) ==
    IF last < Len(txt) /\ Strip(Slice(txt, last, Len(txt))) # <<>>
    THEN <<TextChunk(Strip(Slice(txt, last, Len(txt))), last, Len(txt))>>
    ELSE <<>>

\* The second loop of strategy 3, from json_objects[k] on.
RECURSIVE ObjectParts(_, _, _, _)
ObjectParts(txt, objs, k, last) ==
    IF k > Len(objs)
    THEN RestChunk(txt, last)
    ELSE LET o == objs[k]
         IN  BeforeChunk(txt, last, o.start)
             \o <<JsonChunk(o.parsed_obj, o.start, o.end)>>
             \o ObjectParts(txt, objs, k + 1, o.end)

(***************************************************************************)
(* The inputs of parse_mixed_json_and_text: up to MaxPieces pieces, one     *)
(* after the other.                                                         *)
(***************************************************************************)
MaxPieces == 3

PText == <<"x">>
PTextSp == <<" ", "x", " ">>
PSpace == <<" ">>
POne == <<"1">>
PObj == <<"{", "\"", "x", "\"", ":", "1", "}">>
PArr == <<"[", "1", "]">>
PBad == <<"{", "x", "}">>
PBlock == Fence \o JsonTag \o <<"\n">> \o PObj \o <<"\n">> \o Fence
PBlockArr == Fence \o <<" ">> \o PArr \o <<" ">> \o Fence
PBlockBad == Fence \o PBad \o Fence

Pieces ==
    {PText, PTextSp, PSpace, POne, PObj, PArr, PBad, Fence, PBlock, PBlockArr, PBlockBad}

RECURSIVE Concat(_)
Concat(ps) == IF ps = <<>> THEN <<>> ELSE Head(ps) \o Concat(Tail(ps))

ExtractInputs == {Concat(ps) : ps \in SeqsUpTo(Pieces, MaxPieces)}

InitExtract ==
    /\ raw \in ExtractInputs
    /\ text = raw
    /\ result_parts = <<>> /\ markdown_matches = <<>>
    /\ mi = 1 /\ last_end = 0 /\ json_objects = <<>> /\ brace_count = 0
    /\ start_idx = -1 /\ scan_i = 0 /\ epc = "start" /\ chunks = <<>>
    /\ result = <<>> /\ ret = "" /\ ran = <<>>
    /\ AlignIdle /\ RestIdle

\* Inputs for the brace-counting scan: an object inside an object, an object
\* whose string value holds a closing brace, and lone braces.
PNested == <<"{", "\"", "x", "\"", ":">> \o PObj \o <<"}">>
PStrBrace == <<"{", "\"", "x", "\"", ":", "\"", "}", "\"", "}">>
POpen == <<"{">>
PClose == <<"}">>

BracePieces ==
    {PText, PTextSp, PSpace, PObj, PBad, PNested, PStrBrace, POpen, PClose, PBlock}

BraceInputs == {Concat(ps) : ps \in SeqsUpTo(BracePieces, MaxPieces)}

InitBrace ==
    /\ raw \in BraceInputs
    /\ text = raw
    /\ result_parts = <<>> /\ markdown_matches = <<>>
    /\ mi = 1 /\ last_end = 0 /\ json_objects = <<>> /\ brace_count = 0
    /\ start_idx = -1 /\ scan_i = 0 /\ epc = "start" /\ chunks = <<>>
    /\ result = <<>> /\ ret = "" /\ ran = <<>>
    /\ AlignIdle /\ RestIdle

\* Strategy 1 succeeds: return json.dumps(parsed, indent=2, ...).
WholeReturnGuard == epc = "start" /\ WholeParses(Strip(raw))
WholeReturn ==
    /\ WholeReturnGuard
    /\ text' = Strip(raw)
    /\ chunks' = <<JsonChunk(Loads(text').val, 0, Len(text'))>>
    /\ result' = Join(chunks')
    /\ ret' = "whole"
    /\ ran' = <<"whole">>
    /\ epc' = "done"
    /\ UNCHANGED <<raw, result_parts, markdown_matches, mi, last_end, json_objects,
                   brace_count, start_idx, scan_i, alignVars, restVars>>

\* Strategy 1 fails: except json.JSONDecodeError: pass.
WholeFailGuard == epc = "start" /\ ~WholeParses(Strip(raw))
WholeFail ==
    /\ WholeFailGuard
    /\ text' = Strip(raw)
    /\ ran' = <<"whole">>
    /\ epc' = "fenced"
    /\ UNCHANGED <<raw, result_parts, markdown_matches, mi, last_end, json_objects,
                   brace_count, start_idx, scan_i, chunks, result, ret, alignVars, restVars>>

\* The pattern is searched and matches: strategy 2 begins.
FencedFoundGuard == epc = "fenced" /\ FindAll(text, 0) # <<>>
FencedFound ==
    /\ FencedFoundGuard
    /\ markdown_matches' = FindAll(text, 0)
    /\ last_end' = 0
    /\ mi' = 1
    /\ ran' = Append(ran, "fenced")
    /\ epc' = "fencedLoop"
    /\ UNCHANGED <<raw, text, result_parts, json_objects, brace_count, start_idx,
                   scan_i, chunks, result, ret, alignVars, restVars>>

\* The pattern is searched and does not match: strategy 3 begins.
FencedNoneGuard == epc = "fenced" /\ FindAll(text, 0) = <<>>
FencedNone ==
    /\ FencedNoneGuard
    /\ markdown_matches' = <<>>
    /\ json_objects' = <<>>
    /\ brace_count' = 0
    /\ start_idx' = -1
    /\ scan_i' = 0
    /\ ran' = ran \o <<"fenced", "brace">>
    /\ epc' = "brace"
    /\ UNCHANGED <<raw, text, result_parts, mi, last_end, chunks, result, ret,
                   alignVars, restVars>>

\* One iteration of "for match in markdown_matches".
FencedMatchGuard == epc = "fencedLoop" /\ mi <= Len(markdown_matches)
FencedMatch ==
    /\ FencedMatchGuard
    /\ LET match == markdown_matches[mi] IN
       /\ result_parts' =
             result_parts
             \o (IF match.start > last_end
                 THEN <<GapChunk(text, last_end, match.start)>> ELSE <<>>)
             \o <<BlockChunk(text, match)>>
       /\ last_end' = match.end
    /\ mi' = mi + 1
    /\ UNCHANGED <<raw, text, markdown_matches, json_objects, brace_count, start_idx,
                   scan_i, epc, chunks, result, ret, ran, alignVars, restVars>>

\* After the loop: the remaining text, then
\* return "\n\n".join(filter(None, result_parts)).
FencedReturnGuard == epc = "fencedLoop" /\ mi > Len(markdown_matches)
FencedReturn ==
    /\ FencedReturnGuard
    /\ result_parts' =
          result_parts
          \o (IF last_end < Len(text)
              THEN <<GapChunk(text, last_end, Len(text))>> ELSE <<>>)
    /\ chunks' = FilterNone(result_parts')
    /\ result' = Join(chunks')
    /\ ret' = "fenced"
    /\ epc' = "done"
    /\ UNCHANGED <<raw, text, markdown_matches, mi, last_end, json_objects,
                   brace_count, start_idx, scan_i, ran, alignVars, restVars>>

\* if char == '{': the test is on the character alone, wherever it stands.
Opens(txt, i) == Ch(txt, i) = "{"

\* elif char == '}'
ClosesQuoted(txt, i) ==
    /\ Ch(txt, i) = "}"
    /\ Cardinality({k \in 0..(i - 1) : Ch(txt, k) = "\""}) % 2 = 0
Closes(txt, i) == Ch(txt, i) = "}"

\* if brace_count == 0: start_idx = i
SpanStartInner(count, start, i) == i
SpanStart(count, start, i) == IF count = 0 THEN i ELSE start

\* except json.JSONDecodeError: pass -- the loop goes on with the character
\* after the one at i (n is len(text)).
OnDecodeErrorBreak(i, n) == n
OnDecodeError(i, n) == i + 1

\* One iteration of "for i, char in enumerate(text)".
BraceStepGuard == epc = "brace" /\ scan_i < Len(text)
BraceStep ==
    /\ BraceStepGuard
    /\ IF Opens(text, scan_i)
       THEN /\ start_idx' = SpanStart(brace_count, start_idx, scan_i)
            /\ brace_count' = brace_count + 1
            /\ UNCHANGED json_objects
       ELSE IF Closes(text, scan_i)
       THEN /\ brace_count' = brace_count - 1
            /\ IF brace_count' = 0 /\ start_idx # -1
               THEN LET json_candidate == Slice(text, start_idx, scan_i + 1)
                        parsed == Loads(json_candidate)
                    IN  /\ json_objects' =
                              IF parsed.ok
                              THEN Append(json_objects,
                                          [start |-> start_idx, end |-> scan_i + 1,
                                           parsed_obj |-> parsed.val])
                              ELSE json_objects
                        /\ start_idx' = -1
               ELSE UNCHANGED <<json_objects, start_idx>>
       ELSE UNCHANGED <<json_objects, brace_count, start_idx>>
    /\ scan_i' =
          IF /\ Closes(text, scan_i) /\ brace_count = 1 /\ start_idx # -1
             /\ ~Loads(Slice(text, start_idx, scan_i + 1)).ok
          THEN OnDecodeError(scan_i, Len(text))
          ELSE scan_i + 1
    /\ UNCHANGED <<raw, text, result_parts, markdown_matches, mi, last_end, epc,
                   chunks, result, ret, ran, alignVars, restVars>>

\* After the scan, json_objects is not empty: the second loop and
\* return "\n\n".join(result_parts).
BraceReturnGuard == epc = "brace" /\ scan_i = Len(text) /\ json_objects # <<>>
BraceReturn ==
    /\ BraceReturnGuard
    /\ chunks' = ObjectParts(text, json_objects, 1, 0)
    /\ result' = Join(chunks')
    /\ ret' = "brace"
    /\ epc' = "done"
    /\ UNCHANGED <<raw, text, result_parts, markdown_matches, mi, last_end,
                   json_objects, brace_count, start_idx, scan_i, ran, alignVars, restVars>>

\* No JSON found: return text.
FallbackReturnGuard == epc = "brace" /\ scan_i = Len(text) /\ json_objects = <<>>
FallbackReturn ==
    /\ FallbackReturnGuard
    /\ chunks' = <<TextChunk(text, 0, Len(text))>>
    /\ result' = text
    /\ ret' = "fallback"
    /\ epc' = "done"
    /\ UNCHANGED <<raw, text, result_parts, markdown_matches, mi, last_end,
                   json_objects, brace_count, start_idx, scan_i, ran, alignVars, restVars>>

NextExtract ==
    \/ WholeReturn \/ WholeFail \/ FencedFound \/ FencedNone \/ FencedMatch
    \/ FencedReturn \/ BraceStep \/ BraceReturn \/ FallbackReturn

SpecExtract == InitExtract /\ [][NextExtract]_vars

\* The same function on the inputs of the brace-counting scan.
SpecBrace == InitBrace /\ [][NextExtract]_vars

(***************************************************************************)
(* The newline encoding between the two scripts: the end of                *)
(* extract_json_from_response (gemini3ProAudio) and the first statement of *)
(* format_text_with_line_breaks (format_output).                           *)
(***************************************************************************)
\* A match of the fenced pattern of extract_json_from_response, which has the
\* brace alternative only.
FencedObjectAt(s, p) == MatchesAt(s, p) /\ Ch(s, GroupStart(s, p)) = "{"

\* re.search(fenced pattern, combined_text, re.DOTALL) finds a match.
FencedObjectFound(s) == \E p \in 0..(Len(s) - 1) : FencedObjectAt(s, p)

\* json_match.group(1) of the leftmost match.
FencedObjectGroup(s) ==
    LET m == MatchAt(s, SetMin({p \in 0..(Len(s) - 1) : FencedObjectAt(s, p)}))
    IN  Slice(s, m.g1lo, m.g1hi)

\* re.search(r'\{.*\}', combined_text, re.DOTALL) finds a match: an opening
\* brace with a closing brace somewhere after it.
GreedyFound(s) ==
    \E a \in 0..(Len(s) - 1) : \E b \in (a + 1)..(Len(s) - 1) :
        Ch(s, a) = "{" /\ Ch(s, b) = "}"

\* json_match.group(0): from the first opening brace to the last closing
\* brace of the text (the star is greedy).
GreedyGroup(s) ==
    LET a == SetMin({k \in 0..(Len(s) - 1) : Ch(s, k) = "{"})
        b == CHOOSE k \in 0..(Len(s) - 1) :
                 /\ Ch(s, k) = "}"
                 /\ \A n \in (k + 1)..(Len(s) - 1) : Ch(s, n) # "}"
    IN  Slice(s, a, b + 1)

\* combined_text.split('\n')
RECURSIVE SplitLines(_)
SplitLines(s) ==
    IF \A k \in 1..Len(s) : s[k] # "\n" THEN <<s>>
    ELSE LET p == SetMin({k \in 1..Len(s) : s[k] = "\n"})
         IN  <<SubSeq(s, 1, p - 1)>> \o SplitLines(SubSeq(s, p + 1, Len(s)))

\* '{}'.join(lines)
RECURSIVE JoinBraces(_)
JoinBraces(lines) ==
    IF Len(lines) = 1 THEN lines[1]
    ELSE lines[1] \o <<"{", "}">> \o JoinBraces(Tail(lines))

\* text.replace('{}', '\n'): occurrences are replaced from the left and do
\* not overlap.
RECURSIVE ReplaceBraces(_)
ReplaceBraces(s) ==
    IF s = <<>> THEN <<>>
    ELSE IF StartsWith(s, 0, <<"{", "}">>)
    THEN <<"\n">> \o ReplaceBraces(SubSeq(s, 3, Len(s)))
    ELSE <<s[1]>> \o ReplaceBraces(Tail(s))

\* The candidate JSON text of extract_json_from_response: a sequence of
\* length 0 when neither pattern matches.
JsonStrOf(s) ==
    IF FencedObjectFound(s) THEN <<FencedObjectGroup(s)>>
    ELSE IF GreedyFound(s) THEN <<GreedyGroup(s)>>
    ELSE <<>>

\* The combined response texts: up to MaxPieces pieces, one after the other.
PNewline == <<"\n">>

NewlinePieces == {PText, PNewline, POpen, PClose, PBad, PObj, PBlockBad}

NewlineInputs == {Concat(ps) : ps \in SeqsUpTo(NewlinePieces, MaxPieces)}

InitNewline ==
    /\ combined_text \in NewlineInputs
    /\ json_str = <<>> /\ formatted_text = <<>> /\ formatted = <<>>
    /\ rpc = "search"
    /\ AlignIdle /\ ExtractIdle /\ PipeIdle

\* Neither pattern matches: return {"text": combined_text}.
ExtractAsIs ==
    /\ rpc = "search"
    /\ JsonStrOf(combined_text) = <<>>
    /\ formatted_text' = combined_text
    /\ rpc' = "asis"
    /\ UNCHANGED <<combined_text, json_str, formatted, alignVars, extractVars, pipeVars>>

\* A pattern matches and json.loads(json_str) succeeds: the parsed value is
\* returned.
ExtractParsed ==
    /\ rpc = "search"
    /\ JsonStrOf(combined_text) # <<>>
    /\ Loads(JsonStrOf(combined_text)[1]).ok
    /\ json_str' = JsonStrOf(combined_text)
    /\ rpc' = "parsed"
    /\ UNCHANGED <<combined_text, formatted_text, formatted, alignVars, extractVars, pipeVars>>

\* A pattern matches and json.loads(json_str) fails: the lines are joined
\* with '{}' and returned as {"text": formatted_text}.
ExtractFallback ==
    /\ rpc = "search"
    /\ JsonStrOf(combined_text) # <<>>
    /\ ~Loads(JsonStrOf(combined_text)[1]).ok
    /\ json_str' = JsonStrOf(combined_text)
    /\ formatted_text' = JoinBraces(SplitLines(combined_text))
    /\ rpc' = "fallback"
    /\ UNCHANGED <<combined_text, formatted, alignVars, extractVars, pipeVars>>

\* format_text_with_line_breaks, first statement, on the "text" of the
\* fallback: formatted = text.replace('{}', '\n').
ReplaceStep ==
    /\ rpc = "fallback"
    /\ formatted' = ReplaceBraces(formatted_text)
    /\ rpc' = "replaced"
    /\ UNCHANGED <<combined_text, json_str, formatted_text, alignVars, extractVars, pipeVars>>

NextNewline == ExtractAsIs \/ ExtractParsed \/ ExtractFallback \/ ReplaceStep

SpecNewline == InitNewline /\ [][NextNewline]_vars

(***************************************************************************)
(* analyzeWithGemini: main.  None and the empty string are both "": the    *)
(* code tests them with "not" and "or" only.                               *)
(***************************************************************************)
\* The variables the steps of analyzeWithGemini main leave alone.
notAnalyze == <<alignVars, extractVars, newlineVars, transcribeVars>>

\* prompt_file = './prompts/storytelling_v0.txt'
DefaultPromptFile == "./prompts/storytelling_v0.txt"

\* A prompt file that does not exist.
Missing == "<missing>"

\* The prompt files of a run: the one the user may name and the built-in one.
PromptFiles == {"user.txt", DefaultPromptFile}

\* What the file holds when it is not empty.
ContentOf(f) == IF f = "user.txt" THEN "text of user.txt" ELSE "text of storytelling_v0.txt"

\* Python's "a or b" on strings.
Or(a, b) == IF a # "" THEN a ELSE b

\* not text_input or not text_input.strip()
Blank(t) == t \in {"", " "}

\* if detected_lang != "en" (main)
NeedsTranslation(lang) == lang # "en"

\* translate_to_english returns the text untouched for "en"; otherwise it
\* calls the translation service.
CallsTranslationService(lang) == ~(lang = "en")

\* "translated_to_english": detected_lang != "en"
TranslatedFlagAlways(lang) == TRUE
TranslatedFlag(lang) == lang # "en"

\* How a call on a service or on the file system may end.
Outcomes == {"ok", "value_error", "exception"}

InitAnalyze ==
    /\ args \in [text : {"", " ", "story"}, audio : {"", "a.mp3"},
                  prompt : {"", "P"}, prompt_file : {"", "user.txt"},
                  output : {"", "out.json"}]
    /\ input_data \in [prompt : {"", "Q"}, promptFile : {"", "user.txt"}]
    /\ fs \in [PromptFiles -> {Missing, "", "text"}]
    /\ text_input = "" /\ audio_input = "" /\ prompt = "" /\ prompt_file = ""
    /\ output_file = "" /\ detected_lang = "" /\ calls = <<>> /\ sent = <<>>
    /\ files_read = {} /\ out = <<>> /\ err = <<>> /\ exit_status = -1
    /\ mpc = "start"
    /\ AlignIdle /\ ExtractIdle /\ NewlineIdle /\ TranscribeIdle

\* What fs holds for f, read and stripped.
ReadFile(f) == IF fs[f] = "text" THEN ContentOf(f) ELSE fs[f]

\* The except clauses of main: one JSON error on stderr, sys.exit(1).
ErrorCode(outcome) ==
    CASE outcome = "value_error" -> "VALIDATION_ERROR"
      [] outcome = "not_found" -> "FILE_NOT_FOUND"
      [] OTHER -> "ANALYSIS_FAILED"

\* text_input = args.text or input_data.get("text") and the lines after it.
GetInputs ==
    /\ mpc = "start"
    /\ text_input' = args.text
    /\ audio_input' = args.audio
    /\ prompt' = Or(args.prompt, input_data.prompt)
    /\ prompt_file' = Or(args.prompt_file, input_data.promptFile)
    /\ output_file' = args.output
    /\ mpc' = "validate"
    /\ UNCHANGED <<args, input_data, fs, detected_lang, calls, sent,
                   files_read, out, err, exit_status, notAnalyze>>

\* One of the three tests before the try fails.
InputsRejected ==
    \/ text_input = "" /\ audio_input = ""
    \/ text_input # "" /\ audio_input # ""
    \/ prompt = "" /\ prompt_file = ""

\* parser.error(...): usage on stderr, exit status 2.
UsageError ==
    /\ mpc = "validate"
    /\ InputsRejected
    /\ err' = Append(err, "USAGE")
    /\ exit_status' = 2
    /\ mpc' = "exited"
    /\ UNCHANGED <<args, input_data, fs, text_input, audio_input, prompt,
                   prompt_file, output_file, detected_lang, calls, sent,
                   files_read, out, notAnalyze>>

\* The inputs pass; the try block begins.
Validated ==
    /\ mpc = "validate"
    /\ ~InputsRejected
    /\ mpc' = IF audio_input # "" THEN "load" ELSE "check_text"
    /\ UNCHANGED <<args, input_data, fs, text_input, audio_input, prompt,
                   prompt_file, output_file, detected_lang, calls, sent,
                   files_read, out, err, exit_status, notAnalyze>>

\* Step 1, audio input: load_audio_file(audio_input).
LoadAudio ==
    /\ mpc = "load"
    /\ calls' = Append(calls, "load_audio")
    /\ \E o \in {"ok", "not_found", "exception"} :
          IF o = "ok"
          THEN mpc' = "transcribe" /\ UNCHANGED <<err, exit_status>>
          ELSE err' = Append(err, ErrorCode(o)) /\ exit_status' = 1 /\ mpc' = "exited"
    /\ UNCHANGED <<args, input_data, fs, text_input, audio_input, prompt,
                   prompt_file, output_file, detected_lang, sent, files_read,
                   out, notAnalyze>>

\* Step 1, audio input: text_input = transcribe_audio(audio_data, mime_type).
\* transcribe_audio never returns: without OPENAI_API_KEY it raises
\* ValueError, and with it the line that computes ext calls .split on a Path
\* object, which raises AttributeError before the service is called.
TranscribeAudioOutcomes == {"value_error", "exception"}

Transcribe ==
    /\ mpc = "transcribe"
    /\ calls' = Append(calls, "transcribe")
    /\ \E o \in TranscribeAudioOutcomes :
          /\ err' = Append(err, ErrorCode(o)) /\ exit_status' = 1 /\ mpc' = "exited"
          /\ UNCHANGED text_input
    /\ UNCHANGED <<args, input_data, fs, audio_input, prompt, prompt_file,
                   output_file, detected_lang, sent, files_read, out,
                   notAnalyze>>

\* if not text_input or not text_input.strip(): raise ValueError
CheckText ==
    /\ mpc = "check_text"
    /\ IF Blank(text_input)
       THEN err' = Append(err, "VALIDATION_ERROR") /\ exit_status' = 1 /\ mpc' = "exited"
       ELSE mpc' = "detect" /\ UNCHANGED <<err, exit_status>>
    /\ UNCHANGED <<args, input_data, fs, text_input, audio_input, prompt,
                   prompt_file, output_file, detected_lang, calls, sent,
                   files_read, out, notAnalyze>>

\* Step 2: detected_lang = detect_language(text_input).
DetectLanguage ==
    /\ mpc = "detect"
    /\ calls' = Append(calls, "detect")
    /\ \E o \in Outcomes : \E lang \in {"en", "es"} :
          IF o = "ok"
          THEN /\ detected_lang' = lang /\ mpc' = "translate"
               /\ UNCHANGED <<err, exit_status>>
          ELSE /\ err' = Append(err, ErrorCode(o)) /\ exit_status' = 1 /\ mpc' = "exited"
               /\ UNCHANGED detected_lang
    /\ UNCHANGED <<args, input_data, fs, text_input, audio_input, prompt,
                   prompt_file, output_file, sent, files_read, out,
                   notAnalyze>>

\* Step 3: text_input = translate_to_english(text_input, detected_lang).
Translate ==
    /\ mpc = "translate"
    /\ NeedsTranslation(detected_lang)
    /\ IF CallsTranslationService(detected_lang)
       THEN /\ calls' = Append(calls, "translate")
            /\ \E o \in Outcomes :
                  IF o = "ok"
                  THEN /\ text_input' = "translated" /\ mpc' = "read_prompt"
                       /\ UNCHANGED <<err, exit_status>>
                  ELSE /\ err' = Append(err, ErrorCode(o)) /\ exit_status' = 1 /\ mpc' = "exited"
                       /\ UNCHANGED text_input
       ELSE /\ mpc' = "read_prompt"
            /\ UNCHANGED <<calls, text_input, err, exit_status>>
    /\ UNCHANGED <<args, input_data, fs, audio_input, prompt, prompt_file,
                   output_file, detected_lang, sent, files_read, out,
                   notAnalyze>>

\* Step 3, else branch: the text is already in English.
SkipTranslate ==
    /\ mpc = "translate"
    /\ ~NeedsTranslation(detected_lang)
    /\ mpc' = "read_prompt"
    /\ UNCHANGED <<args, input_data, fs, text_input, audio_input, prompt,
                   prompt_file, output_file, detected_lang, calls, sent,
                   files_read, out, err, exit_status, notAnalyze>>

\* prompt_file = './prompts/storytelling_v0.txt', then Step 4:
\* if prompt_file: prompt = read_prompt_from_file(prompt_file).
ReadPrompt ==
    /\ mpc = "read_prompt"
    /\ prompt_file' = DefaultPromptFile
    /\ IF prompt_file' # ""
       THEN /\ calls' = Append(calls, "read_prompt")
            /\ files_read' = files_read \cup {prompt_file'}
            /\ IF fs[prompt_file'] = Missing
               THEN /\ err' = Append(err, "FILE_NOT_FOUND") /\ exit_status' = 1 /\ mpc' = "exited"
                    /\ UNCHANGED prompt
               ELSE /\ prompt' = ReadFile(prompt_file') /\ mpc' = "check_prompt"
                    /\ UNCHANGED <<err, exit_status>>
       ELSE /\ mpc' = "check_prompt"
            /\ UNCHANGED <<calls, files_read, prompt, err, exit_status>>
    /\ UNCHANGED <<args, input_data, fs, text_input, audio_input,
                   output_file, detected_lang, sent, out, notAnalyze>>

\* if not prompt: raise ValueError("Prompt is required")
CheckPrompt ==
    /\ mpc = "check_prompt"
    /\ IF prompt = ""
       THEN err' = Append(err, "VALIDATION_ERROR") /\ exit_status' = 1 /\ mpc' = "exited"
       ELSE mpc' = "gemini" /\ UNCHANGED <<err, exit_status>>
    /\ UNCHANGED <<args, input_data, fs, text_input, audio_input, prompt,
                   prompt_file, output_file, detected_lang, calls, sent,
                   files_read, out, notAnalyze>>

\* Step 5: gemini_response = call_gemini_api(text_input, prompt, model).
CallGemini ==
    /\ mpc = "gemini"
    /\ calls' = Append(calls, "gemini")
    /\ sent' = <<[text |-> text_input, prompt |-> prompt]>>
    /\ \E o \in Outcomes :
          IF o = "ok"
          THEN mpc' = "extract" /\ UNCHANGED <<err, exit_status>>
          ELSE err' = Append(err, ErrorCode(o)) /\ exit_status' = 1 /\ mpc' = "exited"
    /\ UNCHANGED <<args, input_data, fs, text_input, audio_input, prompt,
                   prompt_file, output_file, detected_lang, files_read, out,
                   notAnalyze>>

\* Step 6: analysis_result = extract_text_from_gemini_response(...).
ExtractResponse ==
    /\ mpc = "extract"
    /\ \E o \in {"ok", "value_error"} :
          IF o = "ok"
          THEN mpc' = "output" /\ UNCHANGED <<err, exit_status>>
          ELSE err' = Append(err, ErrorCode(o)) /\ exit_status' = 1 /\ mpc' = "exited"
    /\ UNCHANGED <<args, input_data, fs, text_input, audio_input, prompt,
                   prompt_file, output_file, detected_lang, calls, sent,
                   files_read, out, notAnalyze>>

\* Step 7: the result is built and written to the output file or to stdout.
WriteOutput ==
    /\ mpc = "output"
    /\ \E o \in (IF output_file # "" THEN {"ok", "exception"} ELSE {"ok"}) :
          IF o = "ok"
          THEN /\ out' = <<[original_language |-> detected_lang,
                            translated_to_english |-> TranslatedFlag(detected_lang),
                            to |-> IF output_file # "" THEN output_file ELSE "stdout"]>>
               /\ exit_status' = 0
               /\ UNCHANGED err
          ELSE /\ err' = Append(err, ErrorCode(o)) /\ exit_status' = 1
               /\ UNCHANGED out
    /\ mpc' = "exited"
    /\ UNCHANGED <<args, input_data, fs, text_input, audio_input, prompt,
                   prompt_file, output_file, detected_lang, calls, sent,
                   files_read, notAnalyze>>

NextAnalyze ==
    \/ GetInputs \/ UsageError \/ Validated \/ LoadAudio \/ Transcribe
    \/ CheckText \/ DetectLanguage \/ Translate \/ SkipTranslate \/ ReadPrompt
    \/ CheckPrompt \/ CallGemini \/ ExtractResponse \/ WriteOutput

SpecAnalyze == InitAnalyze /\ [][NextAnalyze]_vars

(***************************************************************************)
(* transcribeWithSpeakers: main.  None and the empty string are both "".   *)
(***************************************************************************)
\* The variables the steps of transcribeWithSpeakers main leave alone.
notTranscribe == <<alignVars, extractVars, newlineVars, analyzeVars>>

\* size_mb = len(audio_data) / (1024 * 1024)
BytesPerMB == 1048576

\* if size_mb > 16
SizeLimitMB == 16

\* size_mb > 16.  The division is by a power of two, exact in floating
\* point for every length below 2^53, so the test is on the byte count.
TooLarge(n) == n > SizeLimitMB * BytesPerMB

\* The audio the user names: a local file or a URL.
LocalPath == "a.mp3"
UrlPath == "http://h/a.mp3"

\* temp_file.name of tempfile.NamedTemporaryFile(delete=False, suffix=ext)
TempPath == "/tmp/tmpa.mp3"

\* is_url(path): the path has a scheme and a network location.
IsUrl(path) == path = UrlPath

\* Lengths of the audio: empty, small, exactly the limit, one byte more, twice
\* the limit.
AudioLengths == {0, 1, SizeLimitMB * BytesPerMB, SizeLimitMB * BytesPerMB + 1,
                 2 * SizeLimitMB * BytesPerMB}

\* What the except clauses of main print for an exception raised in the try
\* block.  sys.exit raises SystemExit, which is not an Exception: no clause
\* catches it.
HandlerCodesBare(exc) ==
    CASE exc = "ValueError" -> <<"SERVICE_ERROR">>
      [] exc = "FileNotFoundError" -> <<"INVALID_FORMAT">>
      [] OTHER -> <<"TRANSCRIPTION_FAILED">>
HandlerCodes(exc) ==
    CASE exc = "ValueError" -> <<"SERVICE_ERROR">>
      [] exc = "FileNotFoundError" -> <<"INVALID_FORMAT">>
      [] exc = "Exception" -> <<"TRANSCRIPTION_FAILED">>
      [] exc = "SystemExit" -> <<>>

\* Where control goes when a step of the try block raises: the except clause
\* prints and calls sys.exit(1), so none of the steps that follow runs and
\* only the finally clause is left.
AfterHandlerResume(following) == following
AfterHandler(following) == "finally"

InitTranscribe ==
    /\ audio_url \in {"", LocalPath, UrlPath}
    /\ audio_bytes \in AudioLengths
    /\ files \in {{}, {LocalPath}}
    /\ ts_output_file \in {"", "out.json"}
    /\ temp_file_path = "" /\ size_bytes = -1 /\ ts_calls = <<>> /\ ts_out = <<>>
    /\ ts_stderr = <<>> /\ ts_exit = -1 /\ unlinked = {} /\ unlink_errors = {}
    /\ tpc = "start"
    /\ AlignIdle /\ ExtractIdle /\ NewlineIdle /\ AnalyzeIdle

\* if not audio_url: parser.print_help(); sys.exit(1) -- before the try.
CheckAudioUrl ==
    /\ tpc = "start"
    /\ IF audio_url = ""
       THEN ts_exit' = 1 /\ tpc' = "exited"
       ELSE tpc' = "load" /\ UNCHANGED ts_exit
    /\ UNCHANGED <<audio_url, audio_bytes, files, ts_output_file,
                   temp_file_path, size_bytes, ts_calls, ts_out, ts_stderr,
                   unlinked, unlink_errors, notTranscribe>>

\* audio_data, mime_type, temp_file_path = load_audio_file(audio_url).
\* A download may fail before or after the temporary file is created.
LoadAudioFile ==
    /\ tpc = "load"
    /\ ts_calls' = Append(ts_calls, "load")
    /\ IF IsUrl(audio_url)
       THEN \E o \in {"ok", "failed", "failed_after_create"} :
              IF o = "ok"
              THEN /\ files' = files \cup {TempPath}
                   /\ temp_file_path' = TempPath
                   /\ size_bytes' = audio_bytes
                   /\ tpc' = "size"
                   /\ UNCHANGED <<ts_stderr, ts_exit>>
              ELSE /\ files' = IF o = "failed" THEN files ELSE files \cup {TempPath}
                   /\ ts_stderr' = ts_stderr \o HandlerCodes("Exception")
                   /\ ts_exit' = 1
                   /\ tpc' = AfterHandler("size")
                   /\ UNCHANGED <<temp_file_path, size_bytes>>
       ELSE IF audio_url \in files
            THEN /\ temp_file_path' = audio_url
                 /\ size_bytes' = audio_bytes
                 /\ tpc' = "size"
                 /\ UNCHANGED <<files, ts_stderr, ts_exit>>
            ELSE /\ ts_stderr' = ts_stderr \o HandlerCodes("FileNotFoundError")
                 /\ ts_exit' = 1
                 /\ tpc' = AfterHandler("size")
                 /\ UNCHANGED <<files, temp_file_path, size_bytes>>
    /\ UNCHANGED <<audio_url, audio_bytes, ts_output_file, ts_out, unlinked, unlink_errors,
                   notTranscribe>>

\* if size_mb > 16: print FILE_TOO_LARGE on stderr; sys.exit(1).
CheckSize ==
    /\ tpc = "size"
    /\ IF TooLarge(size_bytes)
       THEN /\ ts_stderr' = ts_stderr \o <<"FILE_TOO_LARGE">> \o HandlerCodes("SystemExit")
            /\ ts_exit' = 1
            /\ tpc' = "finally"
       ELSE /\ tpc' = "transcribe"
            /\ UNCHANGED <<ts_stderr, ts_exit>>
    /\ UNCHANGED <<audio_url, audio_bytes, files, ts_output_file,
                   temp_file_path, size_bytes, ts_calls, ts_out, unlinked, unlink_errors,
                   notTranscribe>>

\* Step 1: transcription = transcribe_with_whisper(audio_data, ...).
TranscribeWhisper ==
    /\ tpc = "transcribe"
    /\ ts_calls' = Append(ts_calls, "transcribe")
    /\ \E o \in {"ok", "ValueError", "Exception"} :
          IF o = "ok"
          THEN tpc' = "diarize" /\ UNCHANGED <<ts_stderr, ts_exit>>
          ELSE /\ ts_stderr' = ts_stderr \o HandlerCodes(o)
               /\ ts_exit' = 1
               /\ tpc' = AfterHandler("diarize")
    /\ UNCHANGED <<audio_url, audio_bytes, files, ts_output_file,
                   temp_file_path, size_bytes, ts_out, unlinked, unlink_errors,
                   notTranscribe>>

\* Step 2: speaker_segments = perform_speaker_diarization(temp_file_path, ...).
Diarize ==
    /\ tpc = "diarize"
    /\ ts_calls' = Append(ts_calls, "diarize")
    /\ \E o \in {"ok", "ValueError", "Exception"} :
          IF o = "ok"
          THEN tpc' = "align" /\ UNCHANGED <<ts_stderr, ts_exit>>
          ELSE /\ ts_stderr' = ts_stderr \o HandlerCodes(o)
               /\ ts_exit' = 1
               /\ tpc' = AfterHandler("align")
    /\ UNCHANGED <<audio_url, audio_bytes, files, ts_output_file,
                   temp_file_path, size_bytes, ts_out, unlinked, unlink_errors,
                   notTranscribe>>

\* Steps 3 and 4: align_transcription_with_speakers on the segments the two
\* services returned, then the output is built.  A KeyError or TypeError of
\* the aligner (a segment without start or end, a bound that is None) or of a
\* formatter is an Exception.
AlignAndFormat ==
    /\ tpc = "align"
    /\ ts_calls' = Append(ts_calls, "align")
    /\ \E o \in {"ok", "Exception"} :
          IF o = "ok"
          THEN tpc' = "write" /\ UNCHANGED <<ts_stderr, ts_exit>>
          ELSE /\ ts_stderr' = ts_stderr \o HandlerCodes(o)
               /\ ts_exit' = 1
               /\ tpc' = AfterHandler("write")
    /\ UNCHANGED <<audio_url, audio_bytes, files, ts_output_file,
                   temp_file_path, size_bytes, ts_out, unlinked, unlink_errors,
                   notTranscribe>>

\* The output is written to output_file or printed on stdout.
WriteResult ==
    /\ tpc = "write"
    /\ ts_calls' = Append(ts_calls, "write")
    /\ \E o \in (IF ts_output_file # "" THEN {"ok", "Exception"} ELSE {"ok"}) :
          IF o = "ok"
          THEN /\ ts_out' = <<IF ts_output_file # "" THEN ts_output_file ELSE "stdout">>
               /\ ts_exit' = 0
               /\ UNCHANGED ts_stderr
          ELSE /\ ts_stderr' = ts_stderr \o HandlerCodes(o)
               /\ ts_exit' = 1
               /\ UNCHANGED ts_out
    /\ tpc' = "finally"
    /\ UNCHANGED <<audio_url, audio_bytes, files, ts_output_file,
                   temp_file_path, size_bytes, unlinked, unlink_errors, notTranscribe>>

\* finally: if temp_file_path and is_url(audio_url) and
\* os.path.exists(temp_file_path).
ShouldUnlinkNever(path, url, disk) == FALSE
ShouldUnlinkAnyPath(path, url, disk) == path # "" /\ path \in disk
ShouldUnlink(path, url, disk) == path # "" /\ IsUrl(url) /\ path \in disk

\* The finally clause of main: os.unlink(temp_file_path) under the test above;
\* an exception of os.unlink is caught and ignored, and the file stays.
Finally ==
    /\ tpc = "finally"
    /\ IF ShouldUnlink(temp_file_path, audio_url, files)
       THEN \E o \in {"ok", "Exception"} :
              IF o = "ok"
              THEN /\ files' = files \ {temp_file_path}
                   /\ unlinked' = unlinked \cup {temp_file_path}
                   /\ UNCHANGED unlink_errors
              ELSE /\ unlink_errors' = unlink_errors \cup {temp_file_path}
                   /\ UNCHANGED <<files, unlinked>>
       ELSE UNCHANGED <<files, unlinked, unlink_errors>>
    /\ tpc' = "exited"
    /\ UNCHANGED <<audio_url, audio_bytes, ts_output_file, temp_file_path,
                   size_bytes, ts_calls, ts_out, ts_stderr, ts_exit,
                   notTranscribe>>

NextTranscribe ==
    \/ CheckAudioUrl \/ LoadAudioFile \/ CheckSize \/ TranscribeWhisper
    \/ Diarize \/ AlignAndFormat \/ WriteResult \/ Finally

SpecTranscribe == InitTranscribe /\ [][NextTranscribe]_vars

\* The two command-line programs: a run of either main.
InitPipeline == InitAnalyze \/ InitTranscribe

NextPipeline == NextAnalyze \/ NextTranscribe

SpecPipeline == InitPipeline /\ [][NextPipeline]_vars

(***************************************************************************)
(* Properties of align_transcription_with_speakers                         *)
(***************************************************************************)
\* The overlap as the specification writes it:
\* max(0, min(tEnd, sEnd) - max(tStart, sStart)).
SpecOverlap(t, s) ==
    LET lo == IF t.start >= s.start THEN t.start ELSE s.start
        hi == IF t.end <= s.end THEN t.end ELSE s.end
    IN  IF hi - lo > 0 THEN hi - lo ELSE 0

TIdx == 1..Len(transcription_segments)
SIdx == 1..Len(speaker_segments)

\* Some speaker segment overlaps transcript segment i.
SomeOverlap(i) ==
    \E j \in SIdx : SpecOverlap(transcription_segments[i], speaker_segments[j]) > 0

\* Speaker segment j has the greatest overlap with transcript segment i.
IsGreatest(i, j) ==
    \A k \in SIdx :
        SpecOverlap(transcription_segments[i], speaker_segments[k])
            <= SpecOverlap(transcription_segments[i], speaker_segments[j])

\* The first speaker segment, in input order, with the greatest overlap.
FirstGreatest(i) ==
    CHOOSE j \in SIdx : IsGreatest(i, j) /\ \A k \in 1..(j - 1) : ~IsGreatest(i, k)

WellFormed(seg) == seg.start <= seg.end

\* C1: align returns exactly len(T) segments and the i-th output segment has
\* the start, end, text and id of the i-th transcript segment.
C1_SameLengthAndOrder ==
    apc = "returned" =>
        /\ Len(aligned_segments) = Len(transcription_segments)
        /\ \A i \in TIdx :
              /\ aligned_segments[i].id = transcription_segments[i].id
              /\ aligned_segments[i].start = transcription_segments[i].start
              /\ aligned_segments[i].end = transcription_segments[i].end
              /\ aligned_segments[i].text = transcription_segments[i].text

\* C1 witness: a call with two different transcript segments and some speaker
\* segment has returned.
C1_Witness ==
    /\ apc = "returned"
    /\ Len(transcription_segments) = 2
    /\ transcription_segments[1].start # transcription_segments[2].start
    /\ speaker_segments # <<>>

\* C2: a transcript segment that some speaker segment overlaps gets the label
\* of the speaker segment with the greatest overlap, the first such segment in
\* input order when several tie.
C2_GreatestOverlapFirstWins ==
    apc = "returned" =>
        \A i \in TIdx :
            SomeOverlap(i) =>
                aligned_segments[i].speaker = speaker_segments[FirstGreatest(i)].speaker

\* C3: a transcript segment that no speaker segment overlaps (disjoint,
\* touching at an endpoint, or no speaker segment at all) is labelled UNKNOWN.
C3_ZeroOverlapUnknown ==
    apc = "returned" =>
        \A i \in TIdx : ~SomeOverlap(i) => aligned_segments[i].speaker = "UNKNOWN"

\* C3 witness: a returned call in which a well-formed speaker segment begins
\* exactly where a well-formed transcript segment ends, and nothing overlaps it.
C3_Witness ==
    /\ apc = "returned"
    /\ \E i \in TIdx :
          /\ ~SomeOverlap(i)
          /\ WellFormed(transcription_segments[i])
          /\ transcription_segments[i].start < transcription_segments[i].end
          /\ \E j \in SIdx :
                /\ speaker_segments[j].start = transcription_segments[i].end
                /\ speaker_segments[j].start < speaker_segments[j].end
          /\ aligned_segments[i].speaker = "UNKNOWN"

\* C4: UNKNOWN is only the no-match sentinel: a segment is labelled UNKNOWN
\* only if no speaker segment overlaps it, and otherwise its label is the label
\* of a speaker segment with the greatest overlap, whatever string that is.
C4_UnknownOnlyWhenNoOverlap ==
    apc = "returned" =>
        \A i \in TIdx :
            /\ aligned_segments[i].speaker = "UNKNOWN" => ~SomeOverlap(i)
            /\ SomeOverlap(i) =>
                  \E j \in SIdx : /\ IsGreatest(i, j)
                                  /\ aligned_segments[i].speaker = speaker_segments[j].speaker

\* Every segment of both lists carries start and end (and speaker segments a
\* label).
InputsCarryKeys ==
    /\ \A i \in TIdx : {"start", "end"} \subseteq DOMAIN transcription_segments[i]
    /\ \A j \in SIdx : {"start", "end", "speaker"} \subseteq DOMAIN speaker_segments[j]

\* C5: on segments that carry start and end, align never raises, malformed
\* intervals (start > end) included.
C5_NeverRaises == InputsCarryKeys => apc # "raised"

\* C5 witness: a call with a malformed interval in each list has returned a
\* result for it.
C5_Witness ==
    /\ apc = "returned"
    /\ \E i \in TIdx : transcription_segments[i].start > transcription_segments[i].end
    /\ \E j \in SIdx : speaker_segments[j].start > speaker_segments[j].end
    /\ Len(aligned_segments) = Len(transcription_segments)

\* The arguments of the call, as they were when it began: the transcript
\* segments are numbered by the service and carry no speaker field.
ArgsAsGiven ==
    \A i \in TIdx :
        /\ transcription_segments[i] \in TransSegs
              \/ [transcription_segments[i] EXCEPT !.id = 0] \in TransSegs
        /\ transcription_segments[i].id = i - 1
        /\ "speaker" \notin DOMAIN transcription_segments[i]

\* A step of the call changes neither input list nor any input segment.
InputsUntouched ==
    /\ transcription_segments' = transcription_segments
    /\ speaker_segments' = speaker_segments

\* C23: frame condition of align.  Each output segment has exactly the fields
\* of its transcript segment, with the same values, plus the speaker field;
\* no step of the call changes the input lists or an input segment, so no
\* input segment gains a speaker field.
C23_FrameCondition ==
    /\ [](\A i \in 1..Len(aligned_segments) :
            /\ DOMAIN aligned_segments[i] =
                  DOMAIN transcription_segments[i] \cup {"speaker"}
            /\ \A k \in DOMAIN transcription_segments[i] :
                  aligned_segments[i][k] = transcription_segments[i][k])
    /\ [](apc # "idle" => ArgsAsGiven)
    /\ [][InputsUntouched]_vars

\* C23 witness: a call on two transcript segments and two speaker segments
\* has returned, with one segment labelled by a speaker and one UNKNOWN.
C23_Witness ==
    /\ apc = "returned"
    /\ Len(transcription_segments) = 2 /\ Len(speaker_segments) = 2
    /\ Len(aligned_segments) = 2
    /\ aligned_segments[1].speaker = "SPEAKER_01"
    /\ aligned_segments[2].speaker = "UNKNOWN"
    /\ DOMAIN transcription_segments[1] = {"id", "start", "end", "text"}

(***************************************************************************)
(* Properties of parse_mixed_json_and_text                                 *)
(***************************************************************************)
\* t is orig without its leading and trailing whitespace.
IsTrimOf(t, orig) ==
    /\ t # <<>> => ~IsSpace(t[1]) /\ ~IsSpace(t[Len(t)])
    /\ \E a \in 0..(Len(orig) - Len(t)) :
          /\ SubSeq(orig, a + 1, a + Len(t)) = t
          /\ \A k \in 1..a : IsSpace(orig[k])
          /\ \A k \in (a + Len(t) + 1)..Len(orig) : IsSpace(orig[k])

\* The trimmed input parses as one JSON value.
WholeIsJson == Loads(Strip(raw)).ok

\* The fenced-block pattern matches somewhere in the trimmed input.
SomeFence == FindAll(Strip(raw), 0) # <<>>

CIdx == 1..Len(chunks)
MIdx == 1..Len(markdown_matches)

\* Chunk c was made from exactly the span of match k.
IsBlockChunk(c, k) ==
    /\ chunks[c].lo = markdown_matches[k].start
    /\ chunks[c].hi = markdown_matches[k].end

\* The content of fenced block k parses as JSON.
BlockParses(k) ==
    Loads(SubSeq(text, markdown_matches[k].g1lo + 1, markdown_matches[k].g1hi)).ok

\* The plain text around the matches: gap 0 precedes the first match, gap k
\* follows match k.
GapLo(k) == IF k = 0 THEN 0 ELSE markdown_matches[k].end
GapHi(k) ==
    IF k = Len(markdown_matches) THEN Len(text) ELSE markdown_matches[k + 1].start
GapNonEmpty(k) == \E j \in (GapLo(k) + 1)..GapHi(k) : ~IsSpace(text[j])

\* The pretty-printed form of the object {"x": 1}.
PObjDumped == <<"{", "\n", " ", " ", "\"", "x", "\"", ":", " ", "1", "\n", "}">>

\* C6: when the trimmed input parses as one JSON value, the result is exactly
\* one Json chunk, the serialized value, covering the whole input, and neither
\* the fenced-block nor the brace-counting strategy is entered.
C6_WholeStringParse ==
    WholeIsJson =>
        /\ epc \in {"start", "done"}
        /\ epc = "done" =>
              /\ ret = "whole"
              /\ ran = <<"whole">>
              /\ Len(chunks) = 1
              /\ chunks[1].kind = "Json"
              /\ chunks[1].s = Dumps(Loads(Strip(raw)).val)
              /\ chunks[1].lo = 0 /\ chunks[1].hi = Len(text)
              /\ result = chunks[1].s
              /\ Strip(raw) = PObj => result = PObjDumped

\* C6 witness: an input with surrounding whitespace was returned as one Json
\* chunk whose serialization differs from the input text.
C6_Witness ==
    /\ epc = "done" /\ ret = "whole"
    /\ raw # text
    /\ Len(chunks) = 1 /\ chunks[1].s # text

C8_FencedOrder ==
    (epc = "done" /\ ~WholeIsJson /\ SomeFence) =>
        /\ \A c \in CIdx : c < Len(chunks) => chunks[c].hi <= chunks[c + 1].lo
        /\ \A k \in MIdx : \E c \in CIdx : IsBlockChunk(c, k)
        /\ \A k \in 0..Len(markdown_matches) :
              GapNonEmpty(k) <=>
                  \E c \in CIdx :
                      /\ chunks[c].lo = GapLo(k) /\ chunks[c].hi = GapHi(k)
                      /\ chunks[c].lo < chunks[c].hi
                      /\ \A m \in MIdx : ~IsBlockChunk(c, m)
                      /\ chunks[c].kind = "Text"
                      /\ IsTrimOf(chunks[c].s, SubSeq(text, GapLo(k) + 1, GapHi(k)))
        /\ Len(chunks) = Len(markdown_matches)
                         + Cardinality({k \in 0..Len(markdown_matches) : GapNonEmpty(k)})
        /\ raw \in {PText \o PBlock \o PText, PTextSp \o PBlock \o PTextSp} =>
              /\ Len(chunks) = 3
              /\ chunks[1].kind = "Text" /\ chunks[1].s = PText
              /\ chunks[2].kind = "Json" /\ chunks[2].s = PObjDumped
              /\ chunks[3].kind = "Text" /\ chunks[3].s = PText

\* C8 witness: text, fenced block, text was returned as Text, Json, Text, the
\* texts trimmed of the whitespace next to the fences.
C8_Witness ==
    /\ epc = "done" /\ ret = "fenced"
    /\ Len(markdown_matches) = 1
    /\ Len(chunks) = 3
    /\ chunks[1].kind = "Text" /\ chunks[2].kind = "Json" /\ chunks[3].kind = "Text"
    /\ Len(chunks[1].s) < chunks[1].hi - chunks[1].lo

\* C9: in strategy 2 a fenced block whose content does not parse is emitted
\* verbatim, fences included, as a Text chunk at its position; the later
\* blocks are still emitted, and neither the brace-counting strategy nor the
\* fallback is entered.
C9_FailedFenceVerbatim ==
    (epc = "done" /\ ~WholeIsJson /\ SomeFence) =>
        /\ ret = "fenced"
        /\ \A n \in 1..Len(ran) : ran[n] # "brace"
        /\ \A k \in MIdx :
              \E c \in CIdx :
                  /\ IsBlockChunk(c, k)
                  /\ \A d \in CIdx : IsBlockChunk(d, k) => d = c
                  /\ BlockParses(k) => chunks[c].kind = "Json"
                  /\ ~BlockParses(k) =>
                        /\ chunks[c].kind = "Text"
                        /\ chunks[c].s = SubSeq(text, markdown_matches[k].start + 1,
                                                markdown_matches[k].end)
                        /\ SubSeq(chunks[c].s, 1, 3) = Fence
                        /\ SubSeq(chunks[c].s, Len(chunks[c].s) - 2, Len(chunks[c].s)) = Fence

\* C9 witness: a block that does not parse was followed by one that does, and
\* both were emitted.
C9_Witness ==
    /\ epc = "done" /\ ret = "fenced"
    /\ Len(markdown_matches) >= 2
    /\ ~BlockParses(1) /\ BlockParses(2)
    /\ \E c \in CIdx : IsBlockChunk(c, 1) /\ chunks[c].kind = "Text"
    /\ \E c \in CIdx : IsBlockChunk(c, 2) /\ chunks[c].kind = "Json"

\* C10: one strategy makes the result, in the order whole-string, fenced
\* block, brace-counted, fallback: the brace-counted scan is entered only when
\* no fenced block matched, and when one matched every Json chunk is a fenced
\* block (a bare JSON object outside the fences stays text).
C10_OneStrategy ==
    /\ (\E n \in 1..Len(ran) : ran[n] = "brace") =>
          /\ ~WholeIsJson /\ ~SomeFence
          /\ markdown_matches = <<>> /\ result_parts = <<>>
    /\ epc = "done" =>
          /\ ret = "whole" <=> WholeIsJson
          /\ ret = "fenced" <=> (~WholeIsJson /\ SomeFence)
          /\ ret \in {"brace", "fallback"} <=> (~WholeIsJson /\ ~SomeFence)
          /\ ret = "brace" => json_objects # <<>>
          /\ ret = "fallback" => json_objects = <<>>
          /\ ret = "whole" => markdown_matches = <<>> /\ json_objects = <<>> /\ scan_i = 0
          /\ ret = "fenced" =>
                /\ json_objects = <<>> /\ scan_i = 0
                /\ \A c \in CIdx :
                      chunks[c].kind = "Json" => \E k \in MIdx : IsBlockChunk(c, k)

\* C10 witness: a fenced block matched and a bare JSON object outside the
\* fences was returned inside a Text chunk.
C10_Witness ==
    /\ epc = "done" /\ ret = "fenced"
    /\ \E c \in CIdx :
          /\ chunks[c].kind = "Text"
          /\ \A k \in MIdx : ~IsBlockChunk(c, k)
          /\ Loads(chunks[c].s).ok
          /\ Loads(chunks[c].s).val.t = "obj"

(***************************************************************************)
(* Properties of the brace-counting scan (strategy 3)                      *)
(***************************************************************************)
\* Opening braces minus closing braces among the first k characters, every
\* brace counted, wherever it stands.
Depth(txt, k) ==
    Cardinality({n \in 0..(k - 1) : Ch(txt, n) = "{"})
        - Cardinality({n \in 0..(k - 1) : Ch(txt, n) = "}"})

\* The spans <<a, b>> of txt[a:b] that open at depth zero and end at the first
\* closing brace that brings the depth back to zero.
TopSpans(txt) ==
    {sp \in (0..Len(txt)) \X (0..Len(txt)) :
        /\ sp[1] < sp[2]
        /\ Ch(txt, sp[1]) = "{"
        /\ Depth(txt, sp[1]) = 0
        /\ Depth(txt, sp[2]) = 0
        /\ \A k \in (sp[1] + 1)..(sp[2] - 1) : Depth(txt, k) # 0}

SpanParses(sp) == Loads(Slice(text, sp[1], sp[2])).ok

\* The top-level spans of the input that are not JSON.
FailedSpans == {sp \in TopSpans(text) : ~SpanParses(sp)}

\* Sequence part occurs in sequence whole, contiguously.
Contains(whole, part) ==
    \E off \in 0..(Len(whole) - Len(part)) :
        Slice(whole, off, off + Len(part)) = part

\* Text chunk c holds the characters of the span sp.
HoldsSpan(c, sp) ==
    /\ chunks[c].kind = "Text"
    /\ chunks[c].lo <= sp[1] /\ sp[2] <= chunks[c].hi
    /\ Contains(chunks[c].s, Slice(text, sp[1], sp[2]))

\* C11 as stated: when strategy 3 returns, the characters of a brace span
\* that closed at depth zero and did not parse are in no output chunk.
C11_FailedSpanDropped ==
    (epc = "done" /\ ret = "brace") =>
        \A sp \in FailedSpans : \A c \in CIdx : ~HoldsSpan(c, sp)

\* C11: when strategy 3 returns, a brace span that closed at depth zero and
\* did not parse is not a JSON candidate and gets no Json chunk, and its
\* characters stay, unchanged, in exactly one Text chunk: the one of the gap
\* between candidates that the span lies in.
C11_FailedSpanKeptAsText ==
    (epc = "done" /\ ret = "brace") =>
        \A sp \in FailedSpans :
            /\ \A k \in 1..Len(json_objects) :
                  \/ json_objects[k].end <= sp[1]
                  \/ sp[2] <= json_objects[k].start
            /\ \A c \in CIdx :
                  chunks[c].kind = "Json" =>
                      (chunks[c].hi <= sp[1] \/ sp[2] <= chunks[c].lo)
            /\ \E c \in CIdx :
                  /\ HoldsSpan(c, sp)
                  /\ \A d \in CIdx : HoldsSpan(d, sp) => d = c

\* C11 witness: strategy 3 returned for an input where a span that does not
\* parse comes before one that does, and its characters are in a Text chunk.
C11_Witness ==
    /\ epc = "done" /\ ret = "brace"
    /\ \E sp \in FailedSpans :
          /\ \E k \in 1..Len(json_objects) : sp[2] <= json_objects[k].start
          /\ \E c \in CIdx : HoldsSpan(c, sp)

\* The characters of s that are not whitespace, in order.
NonWs(s) == SelectSeq(s, LAMBDA ch : ~IsSpace(ch))

\* The chunks' texts one after the other, without the separators.
RECURSIVE ChunkText(_)
ChunkText(parts) ==
    IF parts = <<>> THEN <<>> ELSE Head(parts).s \o ChunkText(Tail(parts))

\* The chunks are in strictly increasing position order, their spans are not
\* empty and do not overlap, and every character of the trimmed input outside
\* them is whitespace.
SpansCover ==
    /\ \A c \in CIdx : 0 <= chunks[c].lo /\ chunks[c].lo < chunks[c].hi
                         /\ chunks[c].hi <= Len(text)
    /\ \A c \in 1..(Len(chunks) - 1) : chunks[c].hi <= chunks[c + 1].lo
    /\ \A p \in 0..(Len(text) - 1) :
          (\A c \in CIdx : p < chunks[c].lo \/ chunks[c].hi <= p) => IsSpace(Ch(text, p))

\* The characters Json chunk c was parsed from: its span, or, for a fenced
\* block, what stands between the fences.
JsonSource(c) ==
    IF ret = "fenced"
    THEN LET k == CHOOSE k \in MIdx : IsBlockChunk(c, k)
         IN  Slice(text, markdown_matches[k].g1lo, markdown_matches[k].g1hi)
    ELSE Slice(text, chunks[c].lo, chunks[c].hi)

\* C12 as stated: for an input handled by strategies 1-3 the chunks are in
\* increasing position order, do not overlap, cover the input, and their
\* concatenation has exactly the non-whitespace characters of the input.
C12_RoundTripAllChars ==
    (epc = "done" /\ ret \in {"whole", "fenced", "brace"}) =>
        /\ SpansCover
        /\ NonWs(ChunkText(chunks)) = NonWs(raw)

\* C12: for an input handled by strategies 1-3 the chunks are in strictly
\* increasing position order, their spans do not overlap and cover the
\* trimmed input up to whitespace; a Text chunk is its span, trimmed, and a
\* Json chunk is the serialization of the value parsed from its span (from
\* between the fences for a fenced block, whose fences and tag are not
\* reproduced).
C12_CoverageAndContent ==
    (epc = "done" /\ ret \in {"whole", "fenced", "brace"}) =>
        /\ IsTrimOf(text, raw)
        /\ SpansCover
        /\ \A c \in CIdx :
              /\ chunks[c].kind = "Text" =>
                    IsTrimOf(chunks[c].s, Slice(text, chunks[c].lo, chunks[c].hi))
              /\ chunks[c].kind = "Json" =>
                    /\ ret = "fenced" => \E k \in MIdx : IsBlockChunk(c, k)
                    /\ Loads(JsonSource(c)).ok
                    /\ chunks[c].s = Dumps(Loads(JsonSource(c)).val)
        /\ result = Join(chunks)

\* C12 witness: strategy 3 returned text, an object and text again, with
\* whitespace between them.
C12_Witness ==
    /\ epc = "done" /\ ret = "brace"
    /\ Len(chunks) = 3
    /\ chunks[1].kind = "Text" /\ chunks[2].kind = "Json" /\ chunks[3].kind = "Text"
    /\ chunks[1].hi - chunks[1].lo > Len(chunks[1].s)
    /\ chunks[3].hi < Len(raw)

\* A failure to parse at one site does not end the examination: when the
\* whole string is not JSON the fenced-block search runs; every fenced block,
\* parsed or not, has its chunk; every top-level brace span that parses is a
\* Json chunk, whatever failed before it.
LaterSitesExamined ==
    epc = "done" =>
        /\ ~WholeIsJson => \E n \in 1..Len(ran) : ran[n] = "fenced"
        /\ ret = "fenced" =>
              \A k \in MIdx :
                  \E c \in CIdx :
                      /\ IsBlockChunk(c, k)
                      /\ BlockParses(k) <=> chunks[c].kind = "Json"
        /\ ret \in {"brace", "fallback"} =>
              \A sp \in TopSpans(text) :
                  SpanParses(sp) =>
                      \E c \in CIdx :
                          /\ chunks[c].kind = "Json"
                          /\ chunks[c].lo = sp[1] /\ chunks[c].hi = sp[2]

\* Before the return statement some step of the function can be taken: the
\* two outcomes of every try and of every test are both handled.
NeverStuck ==
    epc \notin {"done", "idle"} =>
        \/ WholeReturnGuard \/ WholeFailGuard
        \/ FencedFoundGuard \/ FencedNoneGuard
        \/ FencedMatchGuard \/ FencedReturnGuard
        \/ BraceStepGuard \/ BraceReturnGuard \/ FallbackReturnGuard

\* An upper bound of the number of steps left before the return statement.
StepsLeft ==
    CASE epc = "start" -> Len(raw) + 4
      [] epc = "fenced" -> Len(text) + 3
      [] epc = "fencedLoop" -> Len(markdown_matches) - mi + 2
      [] epc = "brace" -> Len(text) - scan_i + 1
      [] OTHER -> 0

ZeroDuration(seg) == seg.start = seg.end

\* C15: a transcript segment with start = end is labelled UNKNOWN, and a
\* label other than UNKNOWN is always the label of a speaker segment of
\* positive duration that overlaps the transcript segment: a speaker segment
\* with start = end is never the one selected.
C15_ZeroDurationNeverWins ==
    apc = "returned" =>
        \A i \in TIdx :
            /\ ZeroDuration(transcription_segments[i]) =>
                  aligned_segments[i].speaker = "UNKNOWN"
            /\ aligned_segments[i].speaker # "UNKNOWN" =>
                  \E j \in SIdx :
                      /\ speaker_segments[j].speaker = aligned_segments[i].speaker
                      /\ ~ZeroDuration(speaker_segments[j])
                      /\ SpecOverlap(transcription_segments[i], speaker_segments[j]) > 0
            /\ (\A j \in SIdx : ZeroDuration(speaker_segments[j])) =>
                  aligned_segments[i].speaker = "UNKNOWN"

\* C15 witness: a returned call where a zero-duration transcript segment lies
\* strictly inside a labelled speaker segment and is UNKNOWN, and a
\* zero-duration speaker segment lies strictly inside a transcript segment
\* that did not get its label.
C15_Witness ==
    /\ apc = "returned"
    /\ \E i \in TIdx : \E j \in SIdx :
          /\ ZeroDuration(transcription_segments[i])
          /\ speaker_segments[j].start < transcription_segments[i].start
          /\ transcription_segments[i].start < speaker_segments[j].end
          /\ speaker_segments[j].speaker # ""
          /\ aligned_segments[i].speaker = "UNKNOWN"
    /\ \E i \in TIdx : \E j \in SIdx :
          /\ ZeroDuration(speaker_segments[j])
          /\ transcription_segments[i].start < speaker_segments[j].start
          /\ speaker_segments[j].start < transcription_segments[i].end
          /\ aligned_segments[i].speaker # speaker_segments[j].speaker

(***************************************************************************)
(* Nesting and quoting in the brace-counting scan                          *)
(***************************************************************************)
\* The pretty-printed form of the object {"x": {"x": 1}}.
PNestedDumped ==
    <<"{", "\n", " ", " ", "\"", "x", "\"", ":", " ", "{", "\n",
      " ", " ", " ", " ", "\"", "x", "\"", ":", " ", "1", "\n",
      " ", " ", "}", "\n", "}">>

\* Position p holds an opening brace that is inside an open span.
InnerOpen(p) == Ch(text, p) = "{" /\ Depth(text, p) > 0

\* A candidate is recorded only by the step at a closing brace that takes the
\* depth from one to zero, and it is the span that opened at depth zero.
CandidateOnlyAtDepthZero ==
    (epc = "brace" /\ json_objects' # json_objects) =>
        /\ Ch(text, scan_i) = "}"
        /\ brace_count = 1 /\ brace_count' = 0
        /\ Len(json_objects') = Len(json_objects) + 1
        /\ json_objects'[Len(json_objects')].end = scan_i + 1
        /\ Depth(text, json_objects'[Len(json_objects')].start) = 0

\* Every Json chunk of strategy 3 is a top-level span: none begins inside
\* another span.
OutermostOnly ==
    (epc = "done" /\ ret = "brace") =>
        \A c \in CIdx :
            chunks[c].kind = "Json" =>
                /\ <<chunks[c].lo, chunks[c].hi>> \in TopSpans(text)
                /\ \A d \in CIdx : d # c =>
                      (chunks[d].hi <= chunks[c].lo \/ chunks[c].hi <= chunks[d].lo)

\* text, an object with an object inside, text: Text, Json(outer), Text.
NestedExample ==
    (epc = "done" /\ raw = Concat(<<PTextSp, PNested, PTextSp>>)) =>
        /\ ret = "brace"
        /\ Len(chunks) = 3
        /\ chunks[1].kind = "Text" /\ chunks[1].s = PText
        /\ chunks[2].kind = "Json" /\ chunks[2].s = PNestedDumped
        /\ chunks[3].kind = "Text" /\ chunks[3].s = PText

\* C16: the brace-counting scan tries a parse only when the depth returns to
\* zero from a positive value, so an object with an object inside is captured
\* once, as its outermost span: text, nested object, text gives exactly Text,
\* Json(outer), Text and no inner object is a Json chunk of its own.
C16_OutermostSpanOnce ==
    /\ [][CandidateOnlyAtDepthZero]_vars
    /\ []OutermostOnly
    /\ []NestedExample

\* C16 witness: strategy 3 returned Text, Json, Text for text around an object
\* that holds an inner object.
C16_Witness ==
    /\ epc = "done" /\ ret = "brace"
    /\ Len(chunks) = 3
    /\ chunks[1].kind = "Text" /\ chunks[3].kind = "Text"
    /\ chunks[2].kind = "Json"
    /\ \E p \in (chunks[2].lo + 1)..(chunks[2].hi - 1) : InnerOpen(p)

\* Position p of the trimmed input is inside a string literal: an odd number
\* of quotes precedes it.
InString(p) == Cardinality({n \in 0..(p - 1) : Ch(text, n) = "\""}) % 2 = 1

\* During the scan the counter is the number of opening braces minus the
\* number of closing braces read so far, quoted ones included.
CountsEveryBrace == epc = "brace" => brace_count = Depth(text, scan_i)

\* A step at a brace changes the counter by one, in a string literal or not.
QuotedBraceCounts ==
    (epc = "brace" /\ scan_i' = scan_i + 1) =>
        /\ Ch(text, scan_i) = "{" => brace_count' = brace_count + 1
        /\ Ch(text, scan_i) = "}" => brace_count' = brace_count - 1

\* Text, then an object whose string value is a closing brace: the span ends
\* at the quoted brace, does not parse, and the input comes back as text.
QuotedExample ==
    (epc = "done" /\ raw = Concat(<<PTextSp, PStrBrace>>)) =>
        /\ ret = "fallback"
        /\ json_objects = <<>>
        /\ brace_count = -1
        /\ result = PText \o <<" ">> \o PStrBrace

\* C17: the brace-counting scan looks at braces only: a brace inside a string
\* literal changes the depth counter as any other does, so a span ends at the
\* first closing brace that brings the count to zero, quoted or not.
C17_NotStringAware ==
    /\ []CountsEveryBrace
    /\ [][QuotedBraceCounts]_vars
    /\ [](epc = "done" =>
            \A k \in 1..Len(json_objects) :
                <<json_objects[k].start, json_objects[k].end>> \in TopSpans(text))
    /\ []QuotedExample

\* C17 witness: the scan ended a span at a closing brace inside a string
\* literal; the span from the same opening brace to a later closing brace is
\* JSON, and it was not found.
C17_Witness ==
    /\ epc = "done" /\ ret = "fallback"
    /\ \E sp \in FailedSpans :
          /\ InString(sp[2] - 1)
          /\ \E e \in (sp[2] + 1)..Len(text) : Loads(Slice(text, sp[1], e)).ok

\* A nesting depth that is never negative: a closing brace at depth zero is
\* unmatched and leaves the depth at zero.
RECURSIVE NestingDepth(_, _)
NestingDepth(txt, k) ==
    IF k = 0 THEN 0
    ELSE LET d == NestingDepth(txt, k - 1)
             c == Ch(txt, k - 1)
         IN  IF c = "{" THEN d + 1
             ELSE IF c = "}" THEN Max(0, d - 1)
             ELSE d

\* The balanced top-level spans of txt when unmatched closing braces are
\* ignored.
BalancedSpans(txt) ==
    {sp \in (0..Len(txt)) \X (0..Len(txt)) :
        /\ sp[1] < sp[2]
        /\ Ch(txt, sp[1]) = "{"
        /\ NestingDepth(txt, sp[1]) = 0
        /\ NestingDepth(txt, sp[2]) = 0
        /\ \A k \in (sp[1] + 1)..(sp[2] - 1) : NestingDepth(txt, k) # 0}

\* Some closing brace of txt before position p is unmatched.
UnmatchedBefore(txt, p) ==
    \E k \in 0..(p - 1) : Ch(txt, k) = "}" /\ NestingDepth(txt, k) = 0

\* The span sp of the input was emitted as a Json chunk.
EmittedAsJson(sp) ==
    \E c \in CIdx :
        chunks[c].kind = "Json" /\ chunks[c].lo = sp[1] /\ chunks[c].hi = sp[2]

\* C24 as stated: the depth counter of the brace-counting scan is never
\* negative, and when the scan has run, every balanced top-level span that
\* follows an unmatched closing brace and parses as JSON is a Json chunk of
\* the result.
C24_DepthNeverNegative ==
    /\ brace_count >= 0
    /\ (epc = "done" /\ ret \in {"brace", "fallback"}) =>
          \A sp \in BalancedSpans(text) :
              (UnmatchedBefore(text, sp[1]) /\ SpanParses(sp)) => EmittedAsJson(sp)

(***************************************************************************)
(* The newline encoding                                                    *)
(***************************************************************************)
\* C18: when extract_json_from_response falls back to the lines joined with
\* '{}', replacing every '{}' with a newline gives back exactly the combined
\* response text.
C18_NewlineRoundTrip == rpc = "replaced" => formatted = combined_text

(***************************************************************************)
(* Properties of analyzeWithGemini main                                    *)
(***************************************************************************)
\* What the user supplied: --prompt or the stdin "prompt", --prompt-file or
\* the stdin "promptFile".
UserPrompt == Or(args.prompt, input_data.prompt)
UserPromptFile == Or(args.prompt_file, input_data.promptFile)

\* C14: the prompt sent to the Gemini API is the user's: the content of the
\* user's prompt file when one is given, the user's prompt otherwise; and a
\* run without a prompt file reads no prompt file.
C14_UserPromptSent ==
    mpc # "idle" =>
        /\ sent # <<>> =>
              sent[1].prompt =
                  IF UserPromptFile # "" THEN ReadFile(UserPromptFile) ELSE UserPrompt
        /\ UserPromptFile = "" => files_read = {}

\* The place of a call in the order transcribe, detect, translate, Gemini.
Rank(c) ==
    CASE c = "load_audio" -> 1
      [] c = "transcribe" -> 2
      [] c = "detect" -> 3
      [] c = "translate" -> 4
      [] c = "read_prompt" -> 5
      [] c = "gemini" -> 6

Called(c) == \E n \in 1..Len(calls) : calls[n] = c

\* main is past the translation step.
PastTranslation ==
    mpc \in {"read_prompt", "check_prompt", "gemini", "extract", "output"} \/ out # <<>>

Began(c) == \E n \in 1..Len(ts_calls) : ts_calls[n] = c

\* C20: audio of more than 16 MB is rejected before any remote work: the only
\* code on stderr is FILE_TOO_LARGE (the generic handler adds nothing), the
\* exit status is 1, neither the transcription service nor the diarization
\* pipeline is called, and no result is written.
C20_TooLargeRejected ==
    TooLarge(size_bytes) =>
        /\ ~Began("transcribe") /\ ~Began("diarize") /\ ~Began("write")
        /\ ts_out = <<>>
        /\ \A n \in 1..Len(ts_stderr) : ts_stderr[n] # "TRANSCRIPTION_FAILED"
        /\ tpc \in {"finally", "exited"} =>
              /\ ts_stderr = <<"FILE_TOO_LARGE">>
              /\ ts_exit = 1
              /\ ts_calls = <<"load">>

\* C20 witness: a downloaded audio one byte over the limit was rejected and
\* the process has exited.
C20_Witness ==
    /\ tpc = "exited"
    /\ size_bytes = SizeLimitMB * BytesPerMB + 1
    /\ IsUrl(audio_url)
    /\ ts_stderr = <<"FILE_TOO_LARGE">>
    /\ ts_exit = 1

\* The input was a URL and load_audio_file returned: the download succeeded
\* and temp_file_path names the temporary file made for it.
Downloaded == IsUrl(audio_url) /\ temp_file_path = TempPath

LoadedLocal == ~IsUrl(audio_url) /\ temp_file_path # ""

\* A step leaves the user's file on disk and removes at most the temporary
\* file.
KeepsUserFile ==
    /\ (LocalPath \in files) => (LocalPath \in files')
    /\ (files \ files') \subseteq {TempPath}

\* C22: main never deletes the user's audio file.  For a local path
\* load_audio_file returns that very path as temp_path; no step of any run,
\* successful or failing, removes the file at that path; the only file a step
\* ever removes is the temporary file of a URL download.
C22_UserFileNeverDeleted ==
    /\ [](LoadedLocal => temp_file_path = audio_url /\ audio_url = LocalPath)
    /\ [](unlinked \subseteq {TempPath} /\ (unlinked # {} => IsUrl(audio_url)))
    /\ [][KeepsUserFile]_vars

\* C22 witness: a run on a local file failed in transcription and exited; the
\* finally clause ran with temp_file_path naming the user's file, which is
\* still on disk.
C22_Witness ==
    /\ tpc = "exited"
    /\ audio_url = LocalPath
    /\ temp_file_path = LocalPath
    /\ Began("transcribe") /\ ~Began("diarize")
    /\ ts_exit = 1
    /\ LocalPath \in files
    /\ unlinked = {}

(***************************************************************************)
(* Properties of both main functions                                       *)
(***************************************************************************)
\* The steps of transcribeWithSpeakers main, in order.
AllSteps == <<"load", "transcribe", "diarize", "align", "write">>

\* The positions of analyzeWithGemini main inside the try block, before the
\* result is written.
BeforeOutput ==
    {"load", "transcribe", "check_text", "detect", "translate", "read_prompt",
     "check_prompt", "gemini", "extract"}

\* A step of analyzeWithGemini main before the output step ends the run with
\* status 1, exactly one error code on stderr and no result.
FailureIsClean ==
    (mpc \in BeforeOutput /\ mpc' = "exited") =>
        /\ exit_status' = 1
        /\ Len(err') = 1
        /\ err'[1] \in {"VALIDATION_ERROR", "FILE_NOT_FOUND", "ANALYSIS_FAILED"}
        /\ out' = <<>>

\* C25: in both main functions a result is written only after every step
\* before it has succeeded, and a run in which loading, a remote call,
\* alignment or response extraction fails ends with status 1, exactly one
\* error object on stderr, and no result on stdout or in the output file.
C25_ResultOnlyAfterSuccess ==
    /\ [](ts_out # <<>> =>
            ts_calls = AllSteps /\ ts_stderr = <<>> /\ ts_exit = 0)
    /\ []((tpc \in {"finally", "exited"} /\ ts_calls # <<>> /\ ~Began("write")) =>
            /\ ts_exit = 1
            /\ Len(ts_stderr) = 1
            /\ ts_out = <<>>)
    /\ [](out # <<>> =>
            /\ err = <<>> /\ exit_status = 0 /\ mpc = "exited"
            /\ Called("detect") /\ Called("read_prompt")
            /\ calls[Len(calls)] = "gemini")
    /\ [][FailureIsClean]_vars

\* C25 witness: the Gemini call was made, the run then failed (in the call or
\* in the extraction of its response) and exited with status 1, one error
\* code and no result.
C25_Witness ==
    /\ mpc = "exited"
    /\ sent # <<>>
    /\ exit_status = 1
    /\ err = <<"VALIDATION_ERROR">>
    /\ out = <<>>

====
